---------------------------- MODULE Spec2Model ----------------------------
(***************************************************************************)
(* Token lifecycle and authentication state machine of the rauthy IdP      *)
(* (rauthy-service/src/auth.rs): authorize, the four grants of the token   *)
(* endpoint, refresh token validation, JWKS rotation and token validation. *)
(*                                                                         *)
(* Time is the unix time in seconds.  Entities whose code lives in         *)
(* rauthy-models (User, Client, AuthCode, Session, RefreshToken, JwkKeyPair,*)
(* TokenSet) are modelled by their interface.                              *)
(***************************************************************************)
EXTENDS Integers, Sequences, FiniteSets, TLC

(***************************************************************************)
(* Bounds of the model                                                     *)
(***************************************************************************)
\* number of auth codes authorize may mint
MaxCodes == 1
\* number of token sets the token endpoint may mint
MaxTokens == 3
\* number of clock advances
MaxTicks == 3
\* number of scheduled JWKS rotations after the one at startup
MaxRotations == 2
\* number of failed password logins of a user
MaxFailedLogins == 1

None == "None"

(***************************************************************************)
(* Static population: clients, users, sessions, request inputs            *)
(***************************************************************************)
ISSUER == "https://idp.example/auth/v1"

Algs == {"RS256", "RS384", "RS512", "EdDSA"}

\* challenge = {} stands for Option::None
Clients ==
  { [id |-> "c1", confidential |-> TRUE, secret |-> "secret1", enabled |-> TRUE,
     flows |-> {"authorization_code", "client_credentials", "password", "refresh_token"},
     challenge |-> {}, access_token_alg |-> "RS256", default_scopes |-> "openid,email",
     access_token_lifetime |-> 1800, auth_code_lifetime |-> 60],
    [id |-> "c2", confidential |-> FALSE, secret |-> None, enabled |-> TRUE,
     flows |-> {"authorization_code", "password", "refresh_token"},
     challenge |-> {"plain", "S256"}, access_token_alg |-> "EdDSA", default_scopes |-> "openid",
     access_token_lifetime |-> 30, auth_code_lifetime |-> 60],
    [id |-> "c3", confidential |-> TRUE, secret |-> "secret3", enabled |-> FALSE,
     flows |-> {"authorization_code", "client_credentials", "password", "refresh_token"},
     challenge |-> {}, access_token_alg |-> "RS256", default_scopes |-> "openid",
     access_token_lifetime |-> 1800, auth_code_lifetime |-> 60],
    [id |-> "c4", confidential |-> TRUE, secret |-> "secret4", enabled |-> TRUE,
     flows |-> {},
     challenge |-> {"S256"}, access_token_alg |-> "RS256", default_scopes |-> "openid",
     access_token_lifetime |-> 1800, auth_code_lifetime |-> 120] }

ClientIds == {c.id : c \in Clients}
ClientById(id) == CHOOSE c \in Clients : c.id = id

\* user_expires = -1 stands for Option::None
UserData ==
  { [id |-> "u1", email |-> "u1@x", password |-> "pw", account_type |-> "Password",
     webauthn |-> FALSE, user_expires |-> 120],
    [id |-> "u2", email |-> "u2@x", password |-> "pw", account_type |-> "PasswordPasskey",
     webauthn |-> TRUE, user_expires |-> 0 - 1],
    [id |-> "u3", email |-> "u3@x", password |-> None, account_type |-> "New",
     webauthn |-> FALSE, user_expires |-> 0 - 1],
    [id |-> "u4", email |-> "u4@x", password |-> None, account_type |-> "Passkey",
     webauthn |-> TRUE, user_expires |-> 0 - 1] }

UserIds == {u.id : u \in UserData}
Emails == {u.email : u \in UserData}
UserById(id) == CHOOSE u \in UserData : u.id = id
UserByEmail(e) == CHOOSE u \in UserData : u.email = e

get_roles(user) ==
  CASE user = "u1" -> <<"admin", "user">>
    [] user = "u2" -> <<"user">>
    [] OTHER -> <<>>

\* the groups of a user; None stands for Option::None
get_groups(user) ==
  CASE user = "u1" -> "staff"
    [] OTHER -> None

SessionIds == {"s1", "s2"}

VARIABLES
  now,             \* OffsetDateTime::now_utc().unix_timestamp()
  ticks,           \* clock advances so far
  users,           \* user id -> mutable part of the User row
  sessions,        \* session id -> Session
  auth_codes,      \* cache of AuthCode by id
  next_code,       \* next fresh auth code id
  refresh_tokens,  \* RefreshToken rows by validation string
  next_tok,        \* next fresh token tail
  jwks,            \* Jwk rows
  jwk_latest,      \* cache of the latest kid per algorithm (0: no entry)
  next_kid,        \* next fresh kid
  webauthn_reqs,   \* WebauthnLoginReq rows
  procs,           \* in-flight authorization_code token requests
  issued,          \* token sets returned to clients
  login_time,      \* cache of the average time of a successful login, in ms
  resp             \* what the last step returned to its caller

vars == <<now, ticks, users, sessions, auth_codes, next_code, refresh_tokens,
          next_tok, jwks, jwk_latest, next_kid, webauthn_reqs, procs, issued,
          login_time, resp>>

Procs == {1, 2}

(***************************************************************************)
(* Responses                                                               *)
(***************************************************************************)
NoJwt == [typ |-> None, azp |-> None, uid |-> None, sub |-> None, kid |-> 0,
          iss |-> None, iat |-> 0, exp |-> 0, tail |-> 0, scope |-> None]

NoTokenSet == [grant |-> None, code |-> 0, from |-> 0, client |-> None,
               uid |-> None, access |-> NoJwt, refresh |-> NoJwt,
               scope |-> None, is_mfa |-> FALSE]

Ok == [kind |-> "Ok", msg |-> ""]
Err(kind, msg) == [kind |-> kind, msg |-> msg]

Resp(op, req, res, ts) ==
  [op |-> op, req |-> req, kind |-> res.kind, msg |-> res.msg, ts |-> ts]

NoResp == Resp("none", None, Ok, NoTokenSet)

InvalidCredentials == Err("Unauthorized", "Invalid user credentials")

(***************************************************************************)
(* Key store: JwkKeyPair::find_latest, JwkKeyPair::find, rotate_jwks       *)
(***************************************************************************)
AlgSeq == <<"RS256", "RS384", "RS512", "EdDSA">>

\* the rows of one rotation: one key per algorithm, fresh kids, created now
NewKeys(first_kid, t) ==
  { [kid |-> first_kid + i - 1, alg |-> AlgSeq[i], created_at |-> t] : i \in 1..4 }

EmptyLatest == [a \in Algs |-> 0]

\* the database's latest key of an algorithm
LatestKids(alg) ==
  { k.kid : k \in { k \in jwks : /\ k.alg = alg
                                 /\ \A j \in jwks : j.alg = alg => j.created_at <= k.created_at } }

\* JwkKeyPair::find_latest: the cache entry, else the database's latest key
find_latest(alg) ==
  IF jwk_latest[alg] # 0 THEN {jwk_latest[alg]} ELSE LatestKids(alg)

\* one run of rotate_jwks over the stored rows `kept`
Rotation(kept) ==
  /\ next_kid <= 4 * (MaxRotations + 1)
  /\ jwks' = kept \cup NewKeys(next_kid, now)
  /\ next_kid' = next_kid + 4
  /\ jwk_latest' = EmptyLatest
  /\ resp' = Resp("rotate_jwks", None, Ok, NoTokenSet)
  /\ UNCHANGED <<login_time, now, ticks, users, sessions, auth_codes, next_code, refresh_tokens,
                 next_tok, webauthn_reqs, procs, issued>>

\* a rotation that drops the keys of the earlier rotations
rotate_jwks_replacing == Rotation({})

\* rotate_jwks: every new row is saved beside the stored ones, then the four
\* latest-by-algorithm cache entries are removed
rotate_jwks == Rotation(jwks)

\* validate_jwt!: the key pair of the token's kid verifies the signature, the
\* issuer is the IdP's, and the time lies in the token's lifetime
validate_jwt(token, keys, t) ==
  IF ~ \E k \in keys : k.kid = token.kid
    THEN Err("Unauthorized", "Invalid Token")
  ELSE IF token.iss # ISSUER \/ t < token.iat \/ t > token.exp
    THEN Err("Unauthorized", "Invalid Token")
  ELSE Ok

\* a validation that asks the refresh store whether the user has a live handle
validate_token_live_handle(token) ==
  IF /\ token.uid # None
     /\ \E t \in DOMAIN refresh_tokens : refresh_tokens[t].user_id = token.uid
     /\ \A t \in DOMAIN refresh_tokens :
          refresh_tokens[t].user_id = token.uid => refresh_tokens[t].exp < now
    THEN Err("Unauthorized", "Invalid Token")
  ELSE validate_jwt(token, jwks, now)

validate_token(token) == validate_jwt(token, jwks, now)

(***************************************************************************)
(* Token engine: build_access_token, build_refresh_token, TokenSet         *)
(***************************************************************************)
CommaToSpace(scopes) ==
  CASE scopes = "openid,email" -> "openid email"
    [] OTHER -> scopes

\* user = None stands for Option::None (client_credentials)
build_access_token(user, client, lifetime, scope, kid) ==
  [typ |-> "Bearer", azp |-> client.id,
   uid |-> IF user = None THEN None ELSE UserById(user).id,
   sub |-> IF user = None THEN None ELSE UserById(user).email,
   kid |-> kid, iss |-> ISSUER, iat |-> now, exp |-> now + lifetime, tail |-> 0,
   scope |-> IF scope # None THEN scope ELSE CommaToSpace(client.default_scopes)]

\* a handle that is valid from the end of the access token's lifetime
build_refresh_token_no_margin(user, client, access_token_lifetime, scope, is_mfa, kid, tail) ==
  LET nbf == now + access_token_lifetime
      exp == nbf + 48 * 3600
  IN [token |-> [typ |-> "Refresh", azp |-> client.id, uid |-> user, sub |-> None,
                 kid |-> kid, iss |-> ISSUER, iat |-> now, exp |-> now + 48 * 3600,
                 tail |-> tail, scope |-> None],
      row |-> [id |-> tail, user_id |-> user, nbf |-> nbf, exp |-> exp,
               scope |-> scope, is_mfa |-> is_mfa]]

\* the signed refresh token and the row RefreshToken::create persists for it
build_refresh_token(user, client, access_token_lifetime, scope, is_mfa, kid, tail) ==
  LET nbf == now + (access_token_lifetime - 60)
      exp == nbf + 48 * 3600
  IN [token |-> [typ |-> "Refresh", azp |-> client.id, uid |-> user, sub |-> None,
                 kid |-> kid, iss |-> ISSUER, iat |-> now, exp |-> now + 48 * 3600,
                 tail |-> tail, scope |-> None],
      row |-> [id |-> tail, user_id |-> user, nbf |-> nbf, exp |-> exp,
               scope |-> scope, is_mfa |-> is_mfa]]

\* the kids the two signatures of a token set may use: the access token's key
\* is looked up first and fills the cache
SignerKids(client) ==
  { <<ka, kr>> \in find_latest(client.access_token_alg) \X { k.kid : k \in jwks } :
      kr \in (IF client.access_token_alg = "EdDSA" THEN {ka} ELSE find_latest("EdDSA")) }

LatestAfterSigning(client, kids) ==
  [jwk_latest EXCEPT ![client.access_token_alg] = kids[1], !["EdDSA"] = kids[2]]

\* TokenSet::from_user: access token and refresh token of a user
from_user(grant, user, client, scope, is_mfa, kids, tail) ==
  LET rt == build_refresh_token(user, client, client.access_token_lifetime, scope,
                                is_mfa, kids[2], tail)
  IN [ts |-> [grant |-> grant, code |-> 0, from |-> 0, client |-> client.id,
              uid |-> user,
              access |-> build_access_token(user, client, client.access_token_lifetime,
                                            scope, kids[1]),
              refresh |-> rt.token, scope |-> scope, is_mfa |-> is_mfa],
      row |-> rt.row]

\* TokenSet::for_client_credentials: an access token alone
for_client_credentials(client, kid) ==
  [grant |-> "client_credentials", code |-> 0, from |-> 0, client |-> client.id,
   uid |-> None,
   access |-> build_access_token(None, client, client.access_token_lifetime, None, kid),
   refresh |-> NoJwt, scope |-> None, is_mfa |-> FALSE]

(***************************************************************************)
(* Client and user checks                                                  *)
(***************************************************************************)
AllowedOrigins == {"https://app.example"}

\* Client::validate_origin: no Origin header passes, a listed one gives the
\* CORS header, any other fails
validate_origin(client, origin) ==
  IF origin = None \/ origin \in AllowedOrigins THEN Ok
  ELSE Err("BadRequest", "Coming from an external Origin which is not allowed")

validate_secret(client, secret) ==
  IF client.secret # None /\ secret = client.secret THEN Ok
  ELSE Err("Unauthorized", "Invalid 'client_secret'")

validate_flow(client, flow) ==
  IF flow \in client.flows THEN Ok
  ELSE Err("BadRequest", "flow is not allowed for this client")

check_enabled(row) ==
  IF row.enabled THEN Ok ELSE InvalidCredentials

check_expired(user, t) ==
  IF UserById(user).user_expires >= 0 /\ UserById(user).user_expires < t
    THEN InvalidCredentials
  ELSE Ok

validate_password(user, plain) ==
  IF UserById(user).password # None /\ plain = UserById(user).password THEN Ok
  ELSE InvalidCredentials

(***************************************************************************)
(* PKCE                                                                    *)
(***************************************************************************)
\* base64_url_encode(sha256(verifier)): a collision-free digest of the text
S256(verifier) == "S256:" \o verifier

(***************************************************************************)
(* authorize (POST /oidc/authorize)                                        *)
(*   req = [email, password, client_id, origin, code_challenge,            *)
(*          code_challenge_method, mfa_cookie, session, redirect_uri,      *)
(*          state]                                                         *)
(***************************************************************************)
\* user checks that take the MFA cookie of any user
authorize_user_any_cookie(req) ==
  IF req.email \notin Emails THEN InvalidCredentials
  ELSE LET u == UserByEmail(req.email)
       IN IF check_enabled(users[u.id]).kind # "Ok" THEN check_enabled(users[u.id])
          ELSE IF check_expired(u.id, now).kind # "Ok" THEN check_expired(u.id, now)
          ELSE IF u.account_type = "New" THEN InvalidCredentials
          ELSE IF /\ req.password = None
                  /\ u.account_type # "Passkey"
                  /\ req.mfa_cookie = None
            THEN InvalidCredentials
          ELSE IF req.password # None THEN validate_password(u.id, req.password)
          ELSE Ok

\* the user checks before the password is looked at
authorize_user(req) ==
  IF req.email \notin Emails THEN InvalidCredentials
  ELSE LET u == UserByEmail(req.email)
       IN IF check_enabled(users[u.id]).kind # "Ok" THEN check_enabled(users[u.id])
          ELSE IF check_expired(u.id, now).kind # "Ok" THEN check_expired(u.id, now)
          ELSE IF u.account_type = "New" THEN InvalidCredentials
          ELSE IF /\ req.password = None
                  /\ u.account_type # "Passkey"
                  /\ ~ (req.mfa_cookie = u.email /\ u.webauthn)
            THEN InvalidCredentials
          ELSE IF req.password # None THEN validate_password(u.id, req.password)
          ELSE Ok

\* the method of the request as it was sent
authorize_method_as_sent(req) == req.code_challenge_method

\* the challenge method stored in the code: None without a challenge
authorize_method(req) ==
  IF req.code_challenge = None THEN None
  ELSE IF req.code_challenge_method = None THEN "plain"
  ELSE req.code_challenge_method

\* checks that take every known method, whatever the client allows
authorize_client_any_method(req) ==
  IF req.client_id \notin ClientIds THEN Err("NotFound", "Client not found")
  ELSE LET client == ClientById(req.client_id)
       IN IF validate_origin(client, req.origin).kind # "Ok"
            THEN validate_origin(client, req.origin)
          ELSE IF req.code_challenge = None THEN Ok
          ELSE IF client.challenge = {}
            THEN Err("BadRequest", "no 'code_challenge_method' allowed for this client")
          ELSE IF authorize_method(req) \notin {"S256", "plain"}
            THEN Err("BadRequest", "invalid 'code_challenge_method")
          ELSE Ok

\* the checks after the user has been saved
authorize_client(req) ==
  IF req.client_id \notin ClientIds THEN Err("NotFound", "Client not found")
  ELSE LET client == ClientById(req.client_id)
       IN IF validate_origin(client, req.origin).kind # "Ok"
            THEN validate_origin(client, req.origin)
          ELSE IF req.code_challenge = None THEN Ok
          ELSE IF client.challenge = {}
            THEN Err("BadRequest", "no 'code_challenge_method' allowed for this client")
          ELSE IF authorize_method(req) \notin {"S256", "plain"}
            THEN Err("BadRequest", "invalid 'code_challenge_method")
          ELSE IF authorize_method(req) \notin client.challenge
            THEN Err("BadRequest", "'code_challenge_method' is not allowed for this client")
          ELSE Ok

WEBAUTHN_REQ_EXP == 60

\* the scopes a client may ask for
AllowedScopes(client) ==
  IF client.id = "c1" THEN {"openid", "email", "profile"} ELSE {"openid"}

\* client.default_scopes, split at the commas
DefaultScopes(client) ==
  CASE client.default_scopes = "openid,email" -> <<"openid", "email">>
    [] OTHER -> <<client.default_scopes>>

IsAllowedScope(client, scope) == scope \in AllowedScopes(client)

\* Client::sanitize_login_scopes: the requested scopes the client allows, the
\* default scopes when none is left
sanitize_login_scopes(client, requested) ==
  LET res == SelectSeq(requested, LAMBDA x : IsAllowedScope(client, x))
  IN IF res = <<>> THEN DefaultScopes(client) ELSE res

\* scopes.join(" ")
RECURSIVE join(_, _)
join(scopes, sep) ==
  IF scopes = <<>> THEN ""
  ELSE IF Len(scopes) = 1 THEN scopes[1]
  ELSE scopes[1] \o sep \o join(Tail(scopes), sep)


\* AuthCode::new
NewAuthCode(id, user, client, session, challenge, method, scopes, lifetime) ==
  [id |-> id, user_id |-> user, client_id |-> client, session_id |-> session,
   challenge |-> challenge, challenge_method |-> method, scopes |-> scopes,
   exp |-> now + lifetime]

\* format!("{}?code={}", redirect_uri, code.id), then "&state={}"
Location(req, code_id) ==
  req.redirect_uri \o "?code=" \o ToString(code_id)
    \o (IF req.state # None THEN "&state=" \o req.state ELSE "")

NoLocation == None

\* s, filled up with c to n characters
RECURSIVE Pad(_, _, _)
Pad(s, c, n) == IF Len(s) >= n THEN s ELSE Pad(s \o c, c, n)

\* get_rand(n): the k-th random string of n characters
get_rand(n, k) == Pad("r" \o ToString(k), "x", n)

AuthResp(req, res, step, loc, hashed) ==
  [op |-> "authorize", req |-> req, kind |-> res.kind, msg |-> res.msg,
   ts |-> NoTokenSet, step |-> step, header_loc |-> loc, code |-> None,
   has_password_been_hashed |-> hashed]

\* AuthStep::AwaitWebauthn with the code of its WebauthnLoginReq
AwaitWebauthn(req, code, hashed) ==
  [AuthResp(req, Ok, "AwaitWebauthn", NoLocation, hashed) EXCEPT !.code = code]

\* a WebauthnLoginReq that is stored under the id of the auth code
WebauthnLoginReq_by_code_id(code, req_code, user, loc) ==
  [code |-> ToString(code.id), user_id |-> user, header_loc |-> loc]

\* the WebauthnLoginReq of a login
WebauthnLoginReq(code, req_code, user, loc) ==
  [code |-> req_code, user_id |-> user, header_loc |-> loc]

\* one call of authorize; a code is minted while ids are left
\* a save that has not reached the store when the caller goes on
code_save_pending(codes, code) == codes

\* code.save(data).await?: the code is in the store when the call returns
code_save(codes, code) == (code.id :> code) @@ codes

\* a lifetime that leaves out the time of the webauthn request
code_lifetime_of_client(client, user) == client.auth_code_lifetime

\* the lifetime of the code: webauthn users get the time of the ceremony on top
code_lifetime(client, user) ==
  IF user.webauthn
    THEN client.auth_code_lifetime + WEBAUTHN_REQ_EXP
  ELSE client.auth_code_lifetime

\* a session that waits for the end of the ceremony before it is flagged
set_mfa_deferred(session, value) == session

\* session.set_mfa(data, value): the flag is written and the session saved
set_mfa(session, value) == [session EXCEPT !.is_mfa = value]

authorize_call(req) ==
  /\ resp = NoResp
  /\ LET ures == authorize_user(req)
         hashed == req.password # None
     IN IF ures.kind # "Ok"
          THEN /\ resp' = AuthResp(req, ures, None, NoLocation, FALSE)
               /\ UNCHANGED <<users, auth_codes, next_code, sessions, webauthn_reqs>>
        ELSE
          LET u == UserByEmail(req.email)
              cres == authorize_client(req)
          IN /\ users' = IF hashed
                           THEN [users EXCEPT ![u.id].last_login = now,
                                              ![u.id].last_failed_login = 0 - 1,
                                              ![u.id].failed_login_attempts = 0]
                         ELSE users
             /\ IF cres.kind # "Ok"
                  THEN /\ resp' = AuthResp(req, cres, None, NoLocation, FALSE)
                       /\ UNCHANGED <<auth_codes, next_code, sessions, webauthn_reqs>>
                ELSE
                  LET client == ClientById(req.client_id)
                      lifetime == code_lifetime(client, u)
                      code == NewAuthCode(next_code, u.id, client.id, req.session,
                                          req.code_challenge, authorize_method(req),
                                          sanitize_login_scopes(client, req.scopes),
                                          lifetime)
                      loc == Location(req, code.id)
                  IN /\ next_code <= MaxCodes
                     /\ auth_codes' = code_save(auth_codes, code)
                     /\ next_code' = next_code + 1
                     /\ IF u.webauthn
                          THEN /\ sessions' = [sessions EXCEPT ![req.session] = set_mfa(@, TRUE)]
                               /\ webauthn_reqs' = webauthn_reqs \cup
                                    {WebauthnLoginReq(code, get_rand(48, code.id), u.id, loc)}
                               /\ resp' = AwaitWebauthn(req, get_rand(48, code.id), hashed)
                        ELSE /\ UNCHANGED <<sessions, webauthn_reqs>>
                             /\ resp' = AuthResp(req, Ok, "LoggedIn", loc, hashed)
  /\ UNCHANGED <<login_time, now, ticks, refresh_tokens, next_tok, jwks, jwk_latest, next_kid,
                 procs, issued>>

\* authorize, called while code ids are left
authorize(req) ==
  /\ next_code <= MaxCodes
  /\ authorize_call(req)

(***************************************************************************)
(* handle_login_delay: the answer of a login is held back after a failure  *)
(***************************************************************************)
\* the cache has no average yet
NoLoginTime == 0 - 1

DEFAULT_LOGIN_TIME == 2000

\* the answer of the login handler, with the time the login took, the
\* average that was read and the sleep before the answer, in ms
DelayResp(res, time_taken, success_time, sleep_time) ==
  [op |-> "handle_login_delay", req |-> res.req, kind |-> res.kind, msg |-> res.msg,
   ts |-> NoTokenSet, time_taken |-> time_taken, success_time |-> success_time,
   sleep_time |-> sleep_time]

\* the sleep before a failed login is answered
sleep_time_none(time_taken, su64) == 0

sleep_time(time_taken, su64) ==
  IF time_taken < su64 THEN su64 - time_taken ELSE 0

\* an average that forgets what was stored
new_time_last(success_time, delta) == delta

\* let new_time = (success_time + delta.as_millis() as i64) / 2
new_time(success_time, delta) == (success_time + delta) \div 2

\* a cache that takes the time of every successful login
stored_time_any_success(hashed, stored, success_time, delta) ==
  new_time(success_time, delta)

\* the average in the cache after a successful login
stored_time(hashed, stored, success_time, delta) ==
  IF hashed THEN new_time(success_time, delta) ELSE stored

\* delta: the ms between the start of the login and now
handle_login_delay(delta) ==
  /\ resp.op = "authorize"
  /\ LET success_time == IF login_time = NoLoginTime THEN DEFAULT_LOGIN_TIME
                         ELSE login_time
     IN IF resp.kind = "Ok"
          THEN /\ login_time' = stored_time(resp.has_password_been_hashed, login_time,
                                             success_time, delta)
               /\ resp' = DelayResp(resp, delta, success_time, 0)
        ELSE /\ login_time' = login_time
             /\ resp' = DelayResp(resp, delta, success_time,
                                  sleep_time(delta, success_time))
  /\ UNCHANGED <<now, ticks, users, sessions, auth_codes, next_code, refresh_tokens,
                 next_tok, jwks, jwk_latest, next_kid, webauthn_reqs, procs, issued>>

(***************************************************************************)
(* Token endpoint: grant_type_code                                         *)
(*   req = [client_id, client_secret, code, code_verifier, origin]         *)
(*   code = 0 stands for a request without 'code'                          *)
(*                                                                         *)
(* The handler is split where it suspends on the stores: the read of the   *)
(* auth code with the checks that follow it (code_begin), the token set    *)
(* and the session (code_tokens), the delete of the code and the answer    *)
(* (code_delete).                                                          *)
(***************************************************************************)
Remove(f, k) == [x \in DOMAIN f \ {k} |-> f[x]]

NoCode == [id |-> 0, user_id |-> None, client_id |-> None, session_id |-> None,
           challenge |-> None, challenge_method |-> None, scopes |-> <<>>, exp |-> 0]

NoCodeReq == [client_id |-> None, client_secret |-> None, code |-> 0,
              code_verifier |-> None, origin |-> None]

IdleProc == [pc |-> "idle", req |-> NoCodeReq, code |-> NoCode, ts |-> NoTokenSet]

\* client lookup, origin, secret and flow of a token request
\* the client checks without the one of the flow
validate_client_any_flow(req, flow) ==
  IF req.client_id \notin ClientIds THEN Err("NotFound", "Client not found")
  ELSE LET client == ClientById(req.client_id)
       IN IF validate_origin(client, req.origin).kind # "Ok"
            THEN validate_origin(client, req.origin)
          ELSE IF client.confidential /\ req.client_secret = None
            THEN Err("BadRequest", "'client_secret' is missing")
          ELSE IF client.confidential
            THEN validate_secret(client, req.client_secret)
          ELSE Ok

validate_client(req, flow) ==
  IF req.client_id \notin ClientIds THEN Err("NotFound", "Client not found")
  ELSE LET client == ClientById(req.client_id)
       IN IF validate_origin(client, req.origin).kind # "Ok"
            THEN validate_origin(client, req.origin)
          ELSE IF client.confidential /\ req.client_secret = None
            THEN Err("BadRequest", "'client_secret' is missing")
          ELSE IF client.confidential /\ validate_secret(client, req.client_secret).kind # "Ok"
            THEN validate_secret(client, req.client_secret)
          ELSE validate_flow(client, flow)

\* a PKCE check that compares the verifier with an S256 challenge unhashed
validate_pkce_unhashed(code, verifier) ==
  IF code.challenge = None THEN Ok
  ELSE IF verifier = None THEN Err("BadRequest", "'code_verifier' is missing")
  ELSE IF code.challenge # verifier
    THEN Err("Unauthorized", "'code_verifier' does not match the challenge")
  ELSE Ok

\* the PKCE check of a code against the request's verifier
validate_pkce(code, verifier) ==
  IF code.challenge = None THEN Ok
  ELSE IF verifier = None THEN Err("BadRequest", "'code_verifier' is missing")
  ELSE IF code.challenge_method = None THEN Err("Panic", "unwrap on None")
  ELSE IF code.challenge_method = "plain"
    THEN IF code.challenge # verifier
           THEN Err("Unauthorized", "'code_verifier' does not match the challenge")
         ELSE Ok
  ELSE IF code.challenge # S256(verifier)
    THEN Err("Unauthorized", "'code_verifier' does not match the challenge")
  ELSE Ok

\* the checks of a code read from the cache, with the checks in `skip` left out
CodeChecks(req, codes, t, skip) ==
  IF req.code \notin DOMAIN codes
    THEN Err("Unauthorized", "'auth_code' could not be found inside the cache")
  ELSE LET code == codes[req.code]
       IN IF "client_id" \notin skip /\ code.client_id # req.client_id
            THEN Err("Unauthorized", "Wrong 'code' for client_id")
          ELSE IF "exp" \notin skip /\ code.exp < t
            THEN Err("SessionExpired", "The Authorization Code has expired")
          ELSE validate_pkce(code, req.code_verifier)

\* code checks that accept the code of another client
validate_code_any_client(req, codes, t) == CodeChecks(req, codes, t, {"client_id"})

\* code checks that accept an expired code
validate_code_ignoring_exp(req, codes, t) == CodeChecks(req, codes, t, {"exp"})

\* the checks of the code read from the cache
validate_code(req, codes, t) == CodeChecks(req, codes, t, {})

code_begin_result(req) ==
  IF req.code = 0 THEN Err("BadRequest", "'code' is missing")
  ELSE IF validate_client(req, "authorization_code").kind # "Ok"
    THEN validate_client(req, "authorization_code")
  ELSE validate_code(req, auth_codes, now)

code_begin(p, req) ==
  /\ resp = NoResp
  /\ procs[p].pc = "idle"
  /\ LET res == code_begin_result(req)
     IN IF res.kind = "Ok"
          THEN /\ procs' = [procs EXCEPT ![p] = [pc |-> "found", req |-> req,
                                                 code |-> auth_codes[req.code],
                                                 ts |-> NoTokenSet]]
               /\ resp' = NoResp
        ELSE /\ procs' = procs
             /\ resp' = Resp("grant_type_code", req, res, NoTokenSet)
  /\ UNCHANGED <<login_time, now, ticks, users, sessions, auth_codes, next_code, refresh_tokens,
                 next_tok, jwks, jwk_latest, next_kid, webauthn_reqs, issued>>

\* Session::validate_user_expiry
validate_user_expiry(user, t) ==
  IF UserById(user).user_expires >= 0 /\ UserById(user).user_expires < t
    THEN Err("Unauthorized", "User has expired")
  ELSE Ok

\* a session update that sets the state and binds no user
session_update_unbound(session, user, t) ==
  [session EXCEPT !.state = "Auth", !.last_seen = t]

\* a session update that binds the user and keeps the old last_seen
session_update_stale(session, user, t) ==
  [session EXCEPT !.state = "Auth", !.user_id = user, !.roles = get_roles(user),
                  !.groups = get_groups(user)]

\* the session as grant_type_code saves it
session_update(session, user, t) ==
  [session EXCEPT !.state = "Auth", !.user_id = user, !.roles = get_roles(user),
                  !.groups = get_groups(user), !.last_seen = t]

\* the error of a store that fails a write
StoreError == Err("Internal", "store error")

\* tokens are minted, then the session of the code is read, updated and
\* saved; save_ok tells whether Session::save succeeds
code_session(p, save_ok) ==
  /\ resp = NoResp
  /\ procs[p].pc = "found"
  /\ next_tok <= MaxTokens
  /\ LET code == procs[p].code
         client == ClientById(procs[p].req.client_id)
     IN \E kids \in SignerKids(client) :
          LET m == from_user("authorization_code", code.user_id, client,
                             join(code.scopes, " "), TRUE, kids, next_tok)
              ts == [m.ts EXCEPT !.code = code.id]
              sres == validate_user_expiry(code.user_id, now)
          IN /\ refresh_tokens' = (m.row.id :> m.row) @@ refresh_tokens
             /\ next_tok' = next_tok + 1
             /\ jwk_latest' = LatestAfterSigning(client, kids)
             /\ IF code.session_id = None
                  THEN /\ procs' = [procs EXCEPT ![p].pc = "minted", ![p].ts = ts]
                       /\ UNCHANGED <<sessions, auth_codes, resp>>
                ELSE IF code.session_id \notin DOMAIN sessions
                  THEN /\ procs' = [procs EXCEPT ![p] = IdleProc]
                       /\ resp' = Resp("grant_type_code", procs[p].req,
                                       Err("NotFound", "Session not found"), NoTokenSet)
                       /\ UNCHANGED <<sessions, auth_codes>>
                ELSE IF sres.kind # "Ok"
                  THEN /\ auth_codes' = Remove(auth_codes, code.id)
                       /\ procs' = [procs EXCEPT ![p] = IdleProc]
                       /\ resp' = Resp("grant_type_code", procs[p].req, sres, NoTokenSet)
                       /\ UNCHANGED sessions
                ELSE IF ~ save_ok
                  THEN /\ procs' = [procs EXCEPT ![p] = IdleProc]
                       /\ resp' = Resp("grant_type_code", procs[p].req, StoreError,
                                       NoTokenSet)
                       /\ UNCHANGED <<sessions, auth_codes>>
                ELSE /\ sessions' = [sessions EXCEPT ![code.session_id] =
                                       session_update(@, code.user_id, now)]
                     /\ procs' = [procs EXCEPT ![p].pc = "minted", ![p].ts = ts]
                     /\ UNCHANGED <<auth_codes, resp>>
  /\ UNCHANGED <<login_time, now, ticks, users, next_code, jwks, next_kid, webauthn_reqs, issued>>

\* the step with a store that saves the session
code_tokens(p) == code_session(p, TRUE)

\* the step with a store that fails to save the session
code_tokens_save_fails(p) ==
  /\ procs[p].code.session_id \in DOMAIN sessions
  /\ validate_user_expiry(procs[p].code.user_id, now).kind = "Ok"
  /\ code_session(p, FALSE)

\* the last step of the handler with a cache that fails to delete the code
code_delete_fails(p) ==
  /\ resp = NoResp
  /\ procs[p].pc = "minted"
  /\ resp' = Resp("grant_type_code", procs[p].req, StoreError, NoTokenSet)
  /\ procs' = [procs EXCEPT ![p] = IdleProc]
  /\ UNCHANGED <<login_time, now, ticks, users, sessions, auth_codes, next_code,
                 refresh_tokens, next_tok, jwks, jwk_latest, next_kid, webauthn_reqs,
                 issued>>

\* the last step of the handler, leaving `codes` in the cache
CodeDelete(p, codes) ==
  /\ resp = NoResp
  /\ procs[p].pc = "minted"
  /\ auth_codes' = codes
  /\ issued' = issued \cup {procs[p].ts}
  /\ resp' = Resp("grant_type_code", procs[p].req, Ok, procs[p].ts)
  /\ procs' = [procs EXCEPT ![p] = IdleProc]
  /\ UNCHANGED <<login_time, now, ticks, users, sessions, next_code, refresh_tokens, next_tok,
                 jwks, jwk_latest, next_kid, webauthn_reqs>>

\* an answer that leaves the redeemed code in the cache
code_delete_keeping(p) == CodeDelete(p, auth_codes)

\* code.delete, then the token set is returned
code_delete(p) == CodeDelete(p, Remove(auth_codes, procs[p].code.id))

(***************************************************************************)
(* Token endpoint: grant_type_credentials                                  *)
(*   req = [client_id, client_secret]                                      *)
(***************************************************************************)
\* the checks without the one of the flow
credentials_checks_any_flow(req) ==
  IF req.client_secret = None THEN Err("BadRequest", "'client_secret' is missing")
  ELSE IF req.client_id \notin ClientIds THEN Err("NotFound", "Client not found")
  ELSE LET client == ClientById(req.client_id)
       IN IF ~ client.confidential
            THEN Err("BadRequest",
                     "'client_credentials' flow is allowed for confidential clients only")
          ELSE IF ~ client.enabled THEN Err("BadRequest", "client is disabled")
          ELSE validate_secret(client, req.client_secret)

credentials_checks(req) ==
  IF req.client_secret = None THEN Err("BadRequest", "'client_secret' is missing")
  ELSE IF req.client_id \notin ClientIds THEN Err("NotFound", "Client not found")
  ELSE LET client == ClientById(req.client_id)
       IN IF ~ client.confidential
            THEN Err("BadRequest",
                     "'client_credentials' flow is allowed for confidential clients only")
          ELSE IF ~ client.enabled THEN Err("BadRequest", "client is disabled")
          ELSE IF validate_secret(client, req.client_secret).kind # "Ok"
            THEN validate_secret(client, req.client_secret)
          ELSE validate_flow(client, "client_credentials")

grant_type_credentials(req) ==
  /\ resp = NoResp
  /\ LET res == credentials_checks(req)
     IN IF res.kind # "Ok"
          THEN /\ resp' = Resp("grant_type_credentials", req, res, NoTokenSet)
               /\ UNCHANGED <<jwk_latest, issued>>
        ELSE LET client == ClientById(req.client_id)
             IN /\ Cardinality(issued) < MaxTokens
                /\ \E kid \in find_latest(client.access_token_alg) :
                     LET ts == for_client_credentials(client, kid)
                     IN /\ jwk_latest' = [jwk_latest EXCEPT ![client.access_token_alg] = kid]
                        /\ issued' = issued \cup {ts}
                        /\ resp' = Resp("grant_type_credentials", req, Ok, ts)
  /\ UNCHANGED <<login_time, now, ticks, users, sessions, auth_codes, next_code, refresh_tokens,
                 next_tok, jwks, next_kid, webauthn_reqs, procs>>

\* grant_type_credentials of call p up to the point where find_latest
\* suspends: the checks, the claims of the token, the look into the cache. A
\* hit signs at once; a miss reads the latest key of the database and holds it
credentials_begin(p, req) ==
  /\ resp = NoResp
  /\ procs[p].pc = "idle"
  /\ LET res == credentials_checks(req)
     IN IF res.kind # "Ok"
          THEN /\ resp' = Resp("grant_type_credentials", req, res, NoTokenSet)
               /\ UNCHANGED <<procs, issued>>
        ELSE LET client == ClientById(req.client_id)
                 alg == client.access_token_alg
             IN /\ Cardinality(issued) < MaxTokens
                /\ IF jwk_latest[alg] # 0
                     THEN /\ issued' = issued
                                         \cup {for_client_credentials(client, jwk_latest[alg])}
                          /\ resp' = Resp("grant_type_credentials", req, Ok,
                                          for_client_credentials(client, jwk_latest[alg]))
                          /\ procs' = procs
                   ELSE \E kid \in LatestKids(alg) :
                          /\ procs' = [procs EXCEPT
                                         ![p] = [IdleProc EXCEPT
                                                   !.pc = "latest_read", !.req = req,
                                                   !.ts = for_client_credentials(client, kid)]]
                          /\ UNCHANGED <<resp, issued>>
  /\ UNCHANGED <<login_time, now, ticks, users, sessions, auth_codes, next_code, refresh_tokens,
                 next_tok, jwks, jwk_latest, next_kid, webauthn_reqs>>

\* the rest of find_latest and sign_jwt! of call p: the key that was read is
\* put into the cache and signs the token
sign_access_token(p) ==
  /\ resp = NoResp
  /\ procs[p].pc = "latest_read"
  /\ jwk_latest' = [jwk_latest EXCEPT
                      ![ClientById(procs[p].req.client_id).access_token_alg]
                         = procs[p].ts.access.kid]
  /\ issued' = issued \cup {procs[p].ts}
  /\ resp' = Resp("grant_type_credentials", procs[p].req, Ok, procs[p].ts)
  /\ procs' = [procs EXCEPT ![p] = IdleProc]
  /\ UNCHANGED <<login_time, now, ticks, users, sessions, auth_codes, next_code, refresh_tokens,
                 next_tok, jwks, next_kid, webauthn_reqs>>

(***************************************************************************)
(* Token endpoint: grant_type_password                                     *)
(*   req = [client_id, client_secret, username, password, origin]          *)
(***************************************************************************)
\* the checks before the user is looked up
password_client(req) ==
  IF req.username = None THEN Err("BadRequest", "Missing 'username'")
  ELSE IF req.password = None THEN Err("BadRequest", "Missing 'password")
  ELSE IF req.client_id \notin ClientIds THEN Err("NotFound", "Client not found")
  ELSE LET client == ClientById(req.client_id)
       IN IF validate_origin(client, req.origin).kind # "Ok"
            THEN validate_origin(client, req.origin)
          ELSE IF client.confidential /\ req.client_secret = None
            THEN Err("BadRequest", "Missing 'client_secret'")
          ELSE IF client.confidential /\ validate_secret(client, req.client_secret).kind # "Ok"
            THEN validate_secret(client, req.client_secret)
          ELSE validate_flow(client, "password")

\* a lookup that tells an unknown email apart
password_user_telling(req) ==
  IF req.username \notin Emails THEN Err("NotFound", "User not found")
  ELSE LET u == UserByEmail(req.username).id
       IN IF check_enabled(users[u]).kind # "Ok" THEN check_enabled(users[u])
          ELSE check_expired(u, now)

\* the lookup of the user and the checks before the password is looked at
password_user(req) ==
  IF req.username \notin Emails THEN InvalidCredentials
  ELSE LET u == UserByEmail(req.username).id
       IN IF check_enabled(users[u]).kind # "Ok" THEN check_enabled(users[u])
          ELSE check_expired(u, now)

grant_type_password(req) ==
  /\ resp = NoResp
  /\ LET pre == IF password_client(req).kind # "Ok" THEN password_client(req)
                ELSE password_user(req)
     IN IF pre.kind # "Ok"
          THEN /\ resp' = Resp("grant_type_password", req, pre, NoTokenSet)
               /\ UNCHANGED <<users, refresh_tokens, next_tok, jwk_latest, issued>>
        ELSE
          LET u == UserByEmail(req.username).id
              client == ClientById(req.client_id)
              pres == validate_password(u, req.password)
          IN IF pres.kind # "Ok"
               THEN /\ users[u].failed_login_attempts < MaxFailedLogins
                    /\ users' = [users EXCEPT ![u].last_failed_login = now,
                                              ![u].failed_login_attempts = @ + 1]
                    /\ resp' = Resp("grant_type_password", req, pres, NoTokenSet)
                    /\ UNCHANGED <<refresh_tokens, next_tok, jwk_latest, issued>>
             ELSE /\ next_tok <= MaxTokens
                  /\ \E kids \in SignerKids(client) :
                       LET m == from_user("password", u, client, None, FALSE, kids, next_tok)
                       IN /\ users' = [users EXCEPT ![u].last_login = now,
                                                    ![u].last_failed_login = 0 - 1,
                                                    ![u].failed_login_attempts = 0]
                          /\ refresh_tokens' = (m.row.id :> m.row) @@ refresh_tokens
                          /\ next_tok' = next_tok + 1
                          /\ jwk_latest' = LatestAfterSigning(client, kids)
                          /\ issued' = issued \cup {m.ts}
                          /\ resp' = Resp("grant_type_password", req, Ok, m.ts)
  /\ UNCHANGED <<login_time, now, ticks, sessions, auth_codes, next_code, jwks, next_kid,
                 webauthn_reqs, procs>>

(***************************************************************************)
(* Token endpoint: grant_type_refresh, validate_refresh_token              *)
(*   req = [client_id, client_secret, refresh_token, origin]               *)
(*   refresh_token = NoJwt stands for a request without 'refresh_token'    *)
(***************************************************************************)
REFRESH_GRACE_TIME == 5

\* RefreshToken::invalidate_all_for_user: no row of the user stays valid
invalidate_all_for_user(rows, uid) ==
  [t \in DOMAIN rows |->
     IF rows[t].user_id = uid /\ rows[t].exp >= now
       THEN [rows[t] EXCEPT !.exp = now - 1]
     ELSE rows[t]]

\* an expired handle answered without touching the user's other tokens
expired_handle_keeping(rows, rt) == rows

\* the rows after an expired handle was presented
expired_handle(rows, rt) == invalidate_all_for_user(rows, rt.user_id)

\* a redemption that leaves the handle's exp as it is
grace_rule_keeping(rt) == rt

\* a redemption that sets the handle's exp to the end of the grace time always
grace_rule_always(rt) == [rt EXCEPT !.exp = now + REFRESH_GRACE_TIME]

\* the redeemed handle: its exp is shortened to the end of the grace time
\* unless it ends by then anyway
grace_rule(rt) ==
  LET exp_at_secs == now + REFRESH_GRACE_TIME
  IN IF rt.exp > exp_at_secs + 1 THEN [rt EXCEPT !.exp = exp_at_secs] ELSE rt

\* a redemption that forgets the scope of the handle
recorded_scope_dropped(rt) == None

\* if let Some(s) = rt.scope: the scope handed to TokenSet::from_user
recorded_scope(rt) == rt.scope

\* validate_refresh_token up to the lookup of the persisted handle
refresh_token_checks(client, token) ==
  IF ~ \E k \in jwks : k.kid = token.kid THEN Err("NotFound", "Jwk not found")
  ELSE IF validate_jwt(token, jwks, now).kind # "Ok" THEN validate_jwt(token, jwks, now)
  ELSE IF token.typ # "Refresh"
    THEN Err("BadRequest", "Provided Token is not a valid refresh token")
  ELSE IF client.id # token.azp THEN Err("BadRequest", "'client_id' does not match")
  ELSE IF token.tail \notin DOMAIN refresh_tokens
    THEN Err("NotFound", "Refresh Token not found")
  ELSE Ok

\* grant_type_refresh up to the lookup of the persisted handle
refresh_checks(req) ==
  IF req.refresh_token = NoJwt THEN Err("BadRequest", "'refresh_token' is missing")
  ELSE IF validate_client(req, "refresh_token").kind # "Ok"
    THEN validate_client(req, "refresh_token")
  ELSE refresh_token_checks(ClientById(req.client_id), req.refresh_token)

RefreshMisuse ==
  Err("BadRequest",
      "Refresh Token has expired already. All other refresh tokensfor this user have been invalidated now because of misuse.")

grant_type_refresh(req) ==
  /\ resp = NoResp
  /\ LET pre == refresh_checks(req)
     IN IF pre.kind # "Ok"
          THEN /\ resp' = Resp("grant_type_refresh", req, pre, NoTokenSet)
               /\ UNCHANGED <<users, refresh_tokens, next_tok, jwk_latest, issued>>
        ELSE
          LET rt == refresh_tokens[req.refresh_token.tail]
              uid == req.refresh_token.uid
              client == ClientById(req.client_id)
              ures == IF check_enabled(users[uid]).kind # "Ok"
                        THEN check_enabled(users[uid])
                      ELSE check_expired(uid, now)
          IN IF rt.exp < now
               THEN /\ refresh_tokens' = expired_handle(refresh_tokens, rt)
                    /\ resp' = Resp("grant_type_refresh", req, RefreshMisuse, NoTokenSet)
                    /\ UNCHANGED <<users, next_tok, jwk_latest, issued>>
             ELSE IF ures.kind # "Ok"
               THEN /\ resp' = Resp("grant_type_refresh", req, ures, NoTokenSet)
                    /\ UNCHANGED <<users, refresh_tokens, next_tok, jwk_latest, issued>>
             ELSE /\ next_tok <= MaxTokens
                  /\ \E kids \in SignerKids(client) :
                       LET m == from_user("refresh_token", uid, client, recorded_scope(rt),
                                          rt.is_mfa, kids, next_tok)
                           ts == [m.ts EXCEPT !.from = rt.id]
                       IN /\ users' = [users EXCEPT ![uid].last_login = now]
                          /\ refresh_tokens' =
                               (m.row.id :> m.row) @@
                                 [refresh_tokens EXCEPT ![rt.id] = grace_rule(rt)]
                          /\ next_tok' = next_tok + 1
                          /\ jwk_latest' = LatestAfterSigning(client, kids)
                          /\ issued' = issued \cup {ts}
                          /\ resp' = Resp("grant_type_refresh", req, Ok, ts)
  /\ UNCHANGED <<login_time, now, ticks, sessions, auth_codes, next_code, jwks, next_kid,
                 webauthn_reqs, procs>>

(***************************************************************************)
(* Token endpoint: get_token_set hands the request to the handler of its   *)
(* grant_type; the authorization_code handler is entered at its first step *)
(***************************************************************************)
GrantTypes == {"authorization_code", "client_credentials", "password", "refresh_token"}

get_token_set(grant_type, req) ==
  IF grant_type = "authorization_code" THEN code_begin(1, req)
  ELSE IF grant_type = "client_credentials" THEN grant_type_credentials(req)
  ELSE IF grant_type = "password" THEN grant_type_password(req)
  ELSE IF grant_type = "refresh_token" THEN grant_type_refresh(req)
  ELSE /\ resp = NoResp
       /\ resp' = Resp("get_token_set", req, Err("BadRequest", "Invalid 'grant_type'"),
                       NoTokenSet)
       /\ UNCHANGED <<login_time, now, ticks, users, sessions, auth_codes, next_code,
                      refresh_tokens, next_tok, jwks, jwk_latest, next_kid,
                      webauthn_reqs, procs, issued>>

(***************************************************************************)
(* Allow-lists of redirect URIs; a URI is a string                         *)
(***************************************************************************)
ends_with(s, c) == Len(s) > 0 /\ SubSeq(s, Len(s), Len(s)) = c

starts_with(s, prefix) == Len(prefix) <= Len(s) /\ SubSeq(s, 1, Len(prefix)) = prefix

\* the index of the first c in s from i on, 0 without one
RECURSIVE find(_, _, _)
find(s, c, i) ==
  IF i > Len(s) THEN 0
  ELSE IF SubSeq(s, i, i) = c THEN i
  ELSE find(s, c, i + 1)

\* str::split_once of a string that holds c
split_once(s, c) ==
  <<SubSeq(s, 1, find(s, c, 1) - 1), SubSeq(s, find(s, c, 1) + 1, Len(s))>>

\* a filter that takes every entry with a '*' for a wildcard
uri_matches_any_star(uri, target) ==
  \/ find(uri, "*", 1) # 0 /\ starts_with(target, split_once(uri, "*")[1])
  \/ uri = target

\* the filter of an allow-list
uri_matches(uri, target) ==
  \/ ends_with(uri, "*") /\ starts_with(target, split_once(uri, "*")[1])
  \/ uri = target

\* the number of entries of the allow-list the filter keeps
RECURSIVE count(_, _)
count(uris, target) ==
  IF uris = <<>> THEN 0
  ELSE (IF uri_matches(Head(uris), target) THEN 1 ELSE 0) + count(Tail(uris), target)

\* validate_auth_req_param checks the redirect_uri against the allow-list
validate_redirect_uri(uris, redirect_uri) ==
  /\ resp = NoResp
  /\ resp' = Resp("validate_auth_req_param",
                  [uris |-> uris, redirect_uri |-> redirect_uri],
                  IF count(uris, redirect_uri) = 0
                    THEN Err("BadRequest", "Invalid redirect uri")
                  ELSE Ok,
                  NoTokenSet)
  /\ UNCHANGED <<login_time, now, ticks, users, sessions, auth_codes, next_code,
                 refresh_tokens, next_tok, jwks, jwk_latest, next_kid, webauthn_reqs,
                 procs, issued>>

(***************************************************************************)
(* Logout: the page that asks for confirmation, or the bypass of it        *)
(*   req = [id_token_hint, post_logout_redirect_uri]                       *)
(***************************************************************************)
\* the ID token of a user, signed like the access token it comes with
build_id_token(user, client, lifetime, kid, t) ==
  [typ |-> "Id", azp |-> client.id, uid |-> None, sub |-> UserById(user).id,
   kid |-> kid, iss |-> ISSUER, iat |-> t, exp |-> t + lifetime, tail |-> 0,
   scope |-> None]

\* Client::get_post_logout_uris; <<>> stands for Option::None
post_logout_redirect_uris(client_id) ==
  CASE client_id = "c1" -> <<"https://a.example/*", "https://a.example/cb">>
    [] OTHER -> <<>>

LogoutResp(req, res, bypass) ==
  [op |-> "logout", req |-> req, kind |-> res.kind, msg |-> res.msg,
   ts |-> NoTokenSet, bypass |-> bypass]

\* the checks of a hint, without the one of its typ
logout_checks_any_typ(req) ==
  IF validate_token(req.id_token_hint).kind # "Ok" THEN validate_token(req.id_token_hint)
  ELSE IF req.post_logout_redirect_uri = None THEN Ok
  ELSE IF post_logout_redirect_uris(req.id_token_hint.azp) = <<>>
    THEN Err("BadRequest", "Given 'post_logout_redirect_uri' is not allowed")
  ELSE IF count(post_logout_redirect_uris(req.id_token_hint.azp),
                req.post_logout_redirect_uri) = 0
    THEN Err("BadRequest", "Given 'post_logout_redirect_uri' is not allowed")
  ELSE Ok

\* the checks of a hint
logout_checks(req) ==
  IF validate_token(req.id_token_hint).kind # "Ok" THEN validate_token(req.id_token_hint)
  ELSE IF req.id_token_hint.typ # "Id"
    THEN Err("BadRequest", "The provided token is not an ID token")
  ELSE IF req.post_logout_redirect_uri = None THEN Ok
  ELSE IF post_logout_redirect_uris(req.id_token_hint.azp) = <<>>
    THEN Err("BadRequest", "Given 'post_logout_redirect_uri' is not allowed")
  ELSE IF count(post_logout_redirect_uris(req.id_token_hint.azp),
                req.post_logout_redirect_uri) = 0
    THEN Err("BadRequest", "Given 'post_logout_redirect_uri' is not allowed")
  ELSE Ok

\* id_token_hint = NoJwt: the request has no hint
logout(req) ==
  /\ resp = NoResp
  /\ resp' = IF req.id_token_hint = NoJwt THEN LogoutResp(req, Ok, FALSE)
             ELSE LogoutResp(req, logout_checks(req), logout_checks(req).kind = "Ok")
  /\ UNCHANGED <<login_time, now, ticks, users, sessions, auth_codes, next_code,
                 refresh_tokens, next_tok, jwks, jwk_latest, next_kid, webauthn_reqs,
                 procs, issued>>

(***************************************************************************)
(* A resource server validates an access token                             *)
(***************************************************************************)
token_check(token) ==
  /\ resp = NoResp
  /\ resp' = Resp("validate_token", token, validate_token(token), NoTokenSet)
  /\ UNCHANGED <<login_time, now, ticks, users, sessions, auth_codes, next_code, refresh_tokens,
                 next_tok, jwks, jwk_latest, next_kid, webauthn_reqs, procs, issued>>

(***************************************************************************)
(* The permissions and the principal of a request to the API, built from   *)
(* the session of its cookie and the bearer token of its header; requests  *)
(* carry no API key                                                        *)
(***************************************************************************)
\* the roles claim of an access token; a token without a user has none
claims_roles(token) == IF token.uid = None THEN None ELSE get_roles(token.uid)

RolePrefixed(roles) == [i \in 1..Len(roles) |-> "ROLE_" \o roles[i]]

NoPrincipal ==
  [user_id |-> None, email |-> None, has_mfa_active |-> FALSE,
   has_session |-> FALSE, has_token |-> FALSE, roles |-> <<>>]

\* session = None: the request has no session
session_permissions(session) ==
  IF session = None THEN <<"all">>
  ELSE LET st == sessions[session].state
       IN <<"all", CASE st = "Init" -> "session-init"
                     [] st = "Auth" -> "session-auth"
                     [] OTHER -> "session-anon">>
          \o (IF st = "Auth" THEN sessions[session].roles ELSE <<>>)

session_principal(session) ==
  IF session # None /\ sessions[session].state = "Auth"
    THEN [user_id |-> sessions[session].user_id, email |-> None,
          has_mfa_active |-> sessions[session].is_mfa, has_session |-> TRUE,
          has_token |-> FALSE, roles |-> sessions[session].roles]
  ELSE NoPrincipal

PermResp(session, bearer, res, perms, principal) ==
  [op |-> "permission_extractor", req |-> [session |-> session, bearer |-> bearer],
   kind |-> res.kind, msg |-> res.msg, ts |-> NoTokenSet, res |-> perms,
   principal |-> principal]

\* the permissions returned at a session and a token of two users
mismatch_permissions(session, bearer) ==
  session_permissions(session) \o RolePrefixed(claims_roles(bearer))

\* bearer = NoJwt: the request has no bearer token
extract(session, bearer) ==
  LET res == session_permissions(session)
      principal == session_principal(session)
      token_res == res \o RolePrefixed(claims_roles(bearer))
  IN IF bearer = NoJwt THEN PermResp(session, bearer, Ok, res, principal)
     ELSE IF validate_token(bearer).kind # "Ok"
       THEN PermResp(session, bearer, validate_token(bearer), <<>>, NoPrincipal)
     ELSE IF bearer.uid = None
       THEN PermResp(session, bearer,
                     Err("Internal", "Malformed JWT Token - roles missing"),
                     <<>>, NoPrincipal)
     ELSE IF principal # NoPrincipal /\ principal.user_id # bearer.uid
       THEN PermResp(session, bearer, Ok, mismatch_permissions(session, bearer),
                     principal)
     ELSE IF principal # NoPrincipal
       THEN PermResp(session, bearer, Ok, token_res \o <<"token-auth">>,
                     [principal EXCEPT !.email = bearer.sub, !.has_token = TRUE])
     ELSE PermResp(session, bearer, Ok, token_res \o <<"token-auth">>,
                   [user_id |-> bearer.uid, email |-> bearer.sub,
                    has_mfa_active |-> FALSE, has_session |-> FALSE,
                    has_token |-> TRUE,
                    roles |-> RolePrefixed(claims_roles(bearer))])

permission_extractor(session, bearer) ==
  /\ resp = NoResp
  /\ resp' = extract(session, bearer)
  /\ UNCHANGED <<login_time, now, ticks, users, sessions, auth_codes, next_code,
                 refresh_tokens, next_tok, jwks, jwk_latest, next_kid, webauthn_reqs,
                 procs, issued>>

(***************************************************************************)
(* Environment: the caller reads the answer, the clock, the cache's TTL,   *)
(* the administrator                                                       *)
(***************************************************************************)
deliver ==
  /\ resp # NoResp
  /\ resp' = NoResp
  /\ UNCHANGED <<login_time, now, ticks, users, sessions, auth_codes, next_code, refresh_tokens,
                 next_tok, jwks, jwk_latest, next_kid, webauthn_reqs, procs, issued>>

tick(d) ==
  /\ resp = NoResp
  /\ ticks < MaxTicks
  /\ now' = now + d
  /\ ticks' = ticks + 1
  /\ UNCHANGED <<login_time, users, sessions, auth_codes, next_code, refresh_tokens, next_tok,
                 jwks, jwk_latest, next_kid, webauthn_reqs, procs, issued, resp>>

\* the cache drops an auth code whose lifetime has passed
evict(c) ==
  /\ resp = NoResp
  /\ c \in DOMAIN auth_codes
  /\ auth_codes[c].exp < now
  /\ auth_codes' = Remove(auth_codes, c)
  /\ UNCHANGED <<login_time, now, ticks, users, sessions, next_code, refresh_tokens, next_tok,
                 jwks, jwk_latest, next_kid, webauthn_reqs, procs, issued, resp>>

\* an administrator disables a user
disable_user(u) ==
  /\ resp = NoResp
  /\ users[u].enabled
  /\ users' = [users EXCEPT ![u].enabled = FALSE]
  /\ UNCHANGED <<login_time, now, ticks, sessions, auth_codes, next_code, refresh_tokens, next_tok,
                 jwks, jwk_latest, next_kid, webauthn_reqs, procs, issued, resp>>

\* a session is ended outside auth.rs: its holder logs out (LoggedOut) or the
\* stored state is not readable any more (Unknown)
end_session(sid, state) ==
  /\ resp = NoResp
  /\ sessions[sid].state \in {"Init", "Auth"}
  /\ sessions' = [sessions EXCEPT ![sid].state = state]
  /\ UNCHANGED <<login_time, now, ticks, users, auth_codes, next_code, refresh_tokens, next_tok,
                 jwks, jwk_latest, next_kid, webauthn_reqs, procs, issued, resp>>

\* the store loses a session: it is deleted or its row has expired
remove_session(sid) ==
  /\ resp = NoResp
  /\ sid \in DOMAIN sessions
  /\ sessions' = Remove(sessions, sid)
  /\ UNCHANGED <<login_time, now, ticks, users, auth_codes, next_code, refresh_tokens, next_tok,
                 jwks, jwk_latest, next_kid, webauthn_reqs, procs, issued, resp>>

(***************************************************************************)
(* Initial state: the keys of the rotation at startup, empty stores        *)
(***************************************************************************)
InitSession ==
  [state |-> "Init", user_id |-> None, roles |-> None, groups |-> None,
   is_mfa |-> FALSE, last_seen |-> 0]

Init ==
  /\ now = 0
  /\ ticks = 0
  /\ users = [u \in UserIds |-> [enabled |-> TRUE, last_login |-> 0 - 1,
                                 last_failed_login |-> 0 - 1,
                                 failed_login_attempts |-> 0]]
  /\ sessions = [s \in SessionIds |-> InitSession]
  /\ auth_codes = [c \in {} |-> NoCode]
  /\ next_code = 1
  /\ refresh_tokens = [t \in {} |-> 0]
  /\ next_tok = 1
  /\ jwks = NewKeys(1, 0)
  /\ jwk_latest = EmptyLatest
  /\ next_kid = 5
  /\ webauthn_reqs = {}
  /\ procs = [p \in Procs |-> IdleProc]
  /\ issued = {}
  /\ login_time = NoLoginTime
  /\ resp = NoResp

(***************************************************************************)
(* The authorization code flow, one token request at a time                *)
(***************************************************************************)
Verifier == "abcdefghijklmnopqrstuvwxyz012345"

BaseAuthorizeReq ==
  [email |-> "u1@x", password |-> "pw", client_id |-> "c1", origin |-> None,
   code_challenge |-> None, code_challenge_method |-> None, mfa_cookie |-> None,
   session |-> "s1", redirect_uri |-> "https://app.example/cb", state |-> None,
   scopes |-> <<"openid">>]

\* logins of u1 at both clients with every challenge, and the failing logins
AuthorizeReqs ==
  { [BaseAuthorizeReq EXCEPT !.client_id = c, !.code_challenge = ch[1],
                             !.code_challenge_method = ch[2]] :
      c \in {"c1", "c2"},
      ch \in {<<None, None>>, <<Verifier, None>>, <<Verifier, "plain">>,
              <<S256(Verifier), "S256">>, <<Verifier, "md5">>} }
  \cup
  { [BaseAuthorizeReq EXCEPT !.email = e, !.password = pw] :
      e \in {"u1@x", "u3@x", "nobody@x"}, pw \in {None, "pw", "bad"} }
  \cup
  { [BaseAuthorizeReq EXCEPT !.client_id = "cx"],
    [BaseAuthorizeReq EXCEPT !.origin = "https://evil.example"] }

ClientSecret(c) == IF c = "c1" THEN "secret1" ELSE None

\* every code (also one never minted) with every verifier at both clients,
\* and the requests that fail the client checks
CodeReqs ==
  { [client_id |-> c, client_secret |-> ClientSecret(c), code |-> k,
     code_verifier |-> v, origin |-> None] :
      c \in {"c1", "c2"}, k \in 0..(MaxCodes + 1),
      v \in {None, Verifier, S256(Verifier), "wrong"} }
  \cup
  { [client_id |-> c, client_secret |-> sec, code |-> 1, code_verifier |-> None,
     origin |-> o] :
      c \in {"c1", "cx"}, sec \in {None, "bad"},
      o \in {None, "https://evil.example"} }

CodeTimeSteps == {1, 60}

Next ==
  \/ \E req \in AuthorizeReqs : authorize(req)
  \/ \E req \in CodeReqs : code_begin(1, req)
  \/ code_tokens(1)
  \/ code_delete(1)
  \/ deliver
  \/ \E d \in CodeTimeSteps : tick(d)
  \/ \E c \in 1..MaxCodes : evict(c)
  \/ disable_user("u1")

Spec == Init /\ [][Next]_vars

(***************************************************************************)
(* The authorization code flow with two token requests in flight           *)
(***************************************************************************)
RaceAuthorizeReqs ==
  { BaseAuthorizeReq, [BaseAuthorizeReq EXCEPT !.password = "bad"] }

RaceCodeReqs ==
  { [client_id |-> "c1", client_secret |-> sec, code |-> k, code_verifier |-> None,
     origin |-> None] : sec \in {"secret1", "bad"}, k \in 1..MaxCodes }

NextRace ==
  \/ \E req \in RaceAuthorizeReqs : authorize(req)
  \/ \E p \in Procs, req \in RaceCodeReqs : code_begin(p, req)
  \/ \E p \in Procs : code_tokens(p)
  \/ \E p \in Procs : code_delete(p)
  \/ deliver
  \/ \E d \in CodeTimeSteps : tick(d)

SpecRace == Init /\ [][NextRace]_vars

(***************************************************************************)
(* The password grant and the refresh_token grant                          *)
(***************************************************************************)
PasswordReqs ==
  { [client_id |-> "c2", client_secret |-> None, username |-> e,
     password |-> "pw", origin |-> None] : e \in {"u2@x", "nobody@x"} }

\* every refresh token issued so far at its own client, the first at another
\* client, an access token in its place, and a request without a token
RefreshReqs ==
  { [client_id |-> "c2", client_secret |-> None, origin |-> None,
     refresh_token |-> t] :
      t \in {NoJwt} \cup {ts.refresh : ts \in issued}
              \cup {ts.access : ts \in {x \in issued : x.refresh.tail = 1}} }
  \cup
  { [client_id |-> "c1", client_secret |-> "secret1", origin |-> None,
     refresh_token |-> ts.refresh] : ts \in {x \in issued : x.refresh.tail = 1} }

\* the second after the grace time, and a step that ends that far before
\* the exp of a handle minted at time 0 for c2
RefreshTimeSteps == {REFRESH_GRACE_TIME + 1, 48 * 3600 - 36}

NextRefresh ==
  \/ \E req \in PasswordReqs : grant_type_password(req)
  \/ \E req \in RefreshReqs : grant_type_refresh(req)
  \/ deliver
  \/ \E d \in RefreshTimeSteps : tick(d)
  \/ disable_user("u2")

SpecRefresh == Init /\ [][NextRefresh]_vars

(***************************************************************************)
(* Access tokens validated while the refresh store changes                 *)
(***************************************************************************)
ValidateRefreshReqs ==
  { [client_id |-> "c2", client_secret |-> None, origin |-> None,
     refresh_token |-> ts.refresh] : ts \in issued }

\* the second after the grace time
NextValidate ==
  \/ grant_type_password([client_id |-> "c2", client_secret |-> None, username |-> "u2@x",
                          password |-> "pw", origin |-> None])
  \/ \E req \in ValidateRefreshReqs : grant_type_refresh(req)
  \/ \E ts \in issued : token_check(ts.access)
  \/ deliver
  \/ tick(REFRESH_GRACE_TIME + 1)

SpecValidate == Init /\ [][NextValidate]_vars

(***************************************************************************)
(* Refresh tokens of the authorization_code flow and of the password flow  *)
(* redeemed at c1                                                          *)
(***************************************************************************)
\* the refresh tokens issued so far at c1 and at c2, and an access token in
\* the place of the refresh token
ScopeRefreshReqs ==
  { [client_id |-> "c1", client_secret |-> "secret1", origin |-> None,
     refresh_token |-> t] :
      t \in {ts.refresh : ts \in issued}
              \cup {ts.access : ts \in {x \in issued : x.refresh.tail = 1}} }
  \cup
  { [client_id |-> "c2", client_secret |-> None, origin |-> None,
     refresh_token |-> ts.refresh] : ts \in {x \in issued : x.refresh.tail = 1} }

\* the code of a login that asks for openid alone, and the password of u2
NextScope ==
  \/ authorize(BaseAuthorizeReq)
  \/ code_begin(1, [client_id |-> "c1", client_secret |-> "secret1", code |-> 1,
                    code_verifier |-> None, origin |-> None])
  \/ code_tokens(1)
  \/ code_delete(1)
  \/ grant_type_password([client_id |-> "c1", client_secret |-> "secret1",
                          username |-> "u2@x", password |-> "pw", origin |-> None])
  \/ \E req \in ScopeRefreshReqs : grant_type_refresh(req)
  \/ deliver

SpecScope == Init /\ [][NextScope]_vars

(***************************************************************************)
(* Access tokens across rotations of the JWKS                              *)
(***************************************************************************)
CredentialsReqs ==
  { [client_id |-> c, client_secret |-> sec] :
      c \in {"c1", "c2"}, sec \in {None, "secret1", "bad"} }

\* a second, and nearly the lifetime of an access token of c1
KeyTimeSteps == {1, 1799}

NextKeys ==
  \/ \E req \in CredentialsReqs : grant_type_credentials(req)
  \/ rotate_jwks
  \/ \E ts \in issued : token_check(ts.access)
  \/ deliver
  \/ \E d \in KeyTimeSteps : tick(d)

SpecKeys == Init /\ [][NextKeys]_vars

(***************************************************************************)
(* Token requests that run beside a rotation of the keys                   *)
(***************************************************************************)
RotateReqs ==
  { [client_id |-> "c1", client_secret |-> sec] : sec \in {"secret1", "bad"} }

\* a rotation takes more than a second: no two of them fall into the same one
NextRotate ==
  \/ \E p \in Procs, req \in RotateReqs : credentials_begin(p, req)
  \/ \E p \in Procs : sign_access_token(p)
  \/ (\A k \in jwks : k.created_at < now) /\ rotate_jwks
  \/ deliver
  \/ tick(1)

SpecRotate == Init /\ [][NextRotate]_vars

(***************************************************************************)
(* The authorization code flow with sessions that end                      *)
(***************************************************************************)
SessionAuthorizeReqs ==
  { [BaseAuthorizeReq EXCEPT !.email = e, !.session = sid] :
      e \in {"u1@x", "u2@x"}, sid \in SessionIds }

NextSession ==
  \/ \E req \in SessionAuthorizeReqs : authorize(req)
  \/ \E req \in RaceCodeReqs : code_begin(1, req)
  \/ code_tokens(1)
  \/ code_delete(1)
  \/ deliver
  \/ \E d \in CodeTimeSteps : tick(d)
  \/ \E sid \in SessionIds, st \in {"LoggedOut", "Unknown"} : end_session(sid, st)

SpecSession == Init /\ [][NextSession]_vars

(***************************************************************************)
(* The client_credentials grant at every kind of client                    *)
(***************************************************************************)
\* every client and an unknown one, without a secret, with its own secret,
\* with the secret of c1 and with a wrong one
MachineReqs ==
  { [client_id |-> c, client_secret |-> sec] :
      c \in ClientIds \cup {"cx"},
      sec \in {None, "bad", "secret1"} \cup {x.secret : x \in Clients} }

NextCredentials ==
  \/ \E req \in MachineReqs : grant_type_credentials(req)
  \/ deliver
  \/ \E d \in KeyTimeSteps : tick(d)

SpecCredentials == Init /\ [][NextCredentials]_vars

(***************************************************************************)
(* Every grant_type at clients that are and are not permitted it           *)
(***************************************************************************)
\* token requests of c1, c2 and c4 with the client's secret and a wrong one,
\* the code, the password of u2, and the first refresh token issued
TokenReqs ==
  { [client_id |-> c, client_secret |-> sec, code |-> 1, code_verifier |-> None,
     username |-> "u2@x", password |-> "pw", refresh_token |-> t, origin |-> None] :
      c \in {"c1", "c2", "c4"}, sec \in {"secret1", "secret4", None},
      t \in {NoJwt} \cup {ts.refresh : ts \in {x \in issued : x.refresh.tail = 1}} }

NextGrants ==
  \/ authorize(BaseAuthorizeReq)
  \/ \E grant_type \in GrantTypes \cup {"implicit"}, req \in TokenReqs :
       get_token_set(grant_type, req)
  \/ code_tokens(1)
  \/ code_delete(1)
  \/ deliver

SpecGrants == Init /\ [][NextGrants]_vars

(***************************************************************************)
(* Redirect URIs against allow-lists                                       *)
(***************************************************************************)
MaxUris == 2

\* a wildcard, an exact entry, a wildcard without a slash, an entry with two
\* '*', one with a '*' that is not its end, and a lone '*'
AllowEntries ==
  {"https://a.example/*", "https://a.example/cb", "https://a.example*",
   "https://*.a.example/*", "https://a.example/*/cb", "*"}

AllowLists == UNION { [1..n -> AllowEntries] : n \in 0..MaxUris }

RedirectUris ==
  {"https://a.example/x", "https://a.example/", "https://a.example",
   "https://b.example/x", "https://a.example/cb", "https://a.example.evil/",
   "https://x.a.example/", "https://a.example/*", "https://a.example/x/cb", ""}

NextRedirect ==
  \/ \E uris \in AllowLists, redirect_uri \in RedirectUris :
       validate_redirect_uri(uris, redirect_uri)
  \/ deliver

SpecRedirect == Init /\ [][NextRedirect]_vars

(***************************************************************************)
(* Logout requests with the tokens of c1 and of c2 as hints                *)
(***************************************************************************)
\* u2 logs in at c1, which has an allow-list, and at c2, which has none
LogoutPasswordReqs ==
  { [client_id |-> "c1", client_secret |-> "secret1", username |-> "u2@x",
     password |-> "pw", origin |-> None],
    [client_id |-> "c2", client_secret |-> None, username |-> "u2@x",
     password |-> "pw", origin |-> None] }

\* the ID token that comes with a token set
IdTokenOf(ts) ==
  build_id_token(ts.uid, ClientById(ts.client), ClientById(ts.client).access_token_lifetime,
                 ts.access.kid, ts.access.iat)

LogoutReqs ==
  { [id_token_hint |-> t, post_logout_redirect_uri |-> uri] :
      t \in {NoJwt} \cup UNION { {ts.access, ts.refresh, IdTokenOf(ts)} : ts \in issued },
      uri \in {None, "https://a.example/x", "https://a.example/cb",
               "https://b.example/x"} }

\* a second more than the lifetime of the tokens of c2
LogoutTimeSteps == {31}

NextLogout ==
  \/ \E req \in LogoutPasswordReqs : grant_type_password(req)
  \/ \E req \in LogoutReqs : logout(req)
  \/ deliver
  \/ \E d \in LogoutTimeSteps : tick(d)

SpecLogout == Init /\ [][NextLogout]_vars

(***************************************************************************)
(* The code flow with a session store and a cache that may fail            *)
(***************************************************************************)
NextStore ==
  \/ authorize(BaseAuthorizeReq)
  \/ \E req \in RaceCodeReqs : code_begin(1, req)
  \/ code_tokens(1)
  \/ code_tokens_save_fails(1)
  \/ code_delete(1)
  \/ code_delete_fails(1)
  \/ remove_session(BaseAuthorizeReq.session)
  \/ deliver
  \/ \E d \in CodeTimeSteps : tick(d)

SpecStore == Init /\ [][NextStore]_vars

(***************************************************************************)
(* Logins of users with and without webauthn at clients with and without   *)
(* PKCE                                                                    *)
(***************************************************************************)
\* u1 has no webauthn, u2 has; c1 allows no challenge, c2 plain and S256, c4
\* S256 alone; the codes of c4 live twice as long as those of c1 and c2
StepAuthorizeReqs ==
  { [BaseAuthorizeReq EXCEPT !.email = e, !.state = st] :
      e \in {"u1@x", "u2@x"}, st \in {None, "xyz"} }
  \cup { [BaseAuthorizeReq EXCEPT !.client_id = c, !.code_challenge = ch[1],
                                  !.code_challenge_method = ch[2]] :
      c \in {"c1", "c2", "c4"},
      ch \in {<<None, None>>, <<Verifier, None>>, <<Verifier, "plain">>,
              <<S256(Verifier), "S256">>, <<Verifier, "md5">>} }
  \cup { [BaseAuthorizeReq EXCEPT !.email = "u2@x", !.client_id = "c4",
                                  !.code_challenge = S256(Verifier),
                                  !.code_challenge_method = "S256"],
          [BaseAuthorizeReq EXCEPT !.password = "bad"],
          [BaseAuthorizeReq EXCEPT !.client_id = "c2",
                                  !.code_challenge_method = "S256"] }

StepCodeReqs ==
  { [client_id |-> "c1", client_secret |-> "secret1", code |-> k, code_verifier |-> None,
     origin |-> None] : k \in 1..MaxCodes }

NextAuthorize ==
  \/ \E req \in StepAuthorizeReqs : authorize(req)
  \/ \E req \in StepCodeReqs : code_begin(1, req)
  \/ code_tokens(1)
  \/ code_delete(1)
  \/ deliver
  \/ \E d \in CodeTimeSteps : tick(d)

SpecAuthorize == Init /\ [][NextAuthorize]_vars

(***************************************************************************)
(* Requests to the API with a session, a bearer token, or both             *)
(***************************************************************************)
\* the token of a machine
ApiTokenReqs == { [client_id |-> "c1", client_secret |-> "secret1"] }

\* a second more than the lifetime of an access token of c2
ApiTimeSteps == {31}

NextPermission ==
  \/ authorize(BaseAuthorizeReq)
  \/ \E req \in RaceCodeReqs : code_begin(1, req)
  \/ code_tokens(1)
  \/ code_delete(1)
  \/ \E req \in PasswordReqs : grant_type_password(req)
  \/ \E req \in ApiTokenReqs : grant_type_credentials(req)
  \/ \E session \in SessionIds \cup {None}, bearer \in {NoJwt} \cup {ts.access : ts \in issued} :
       permission_extractor(session, bearer)
  \/ deliver
  \/ \E d \in ApiTimeSteps : tick(d)

SpecPermission == Init /\ [][NextPermission]_vars

(***************************************************************************)
(* Logins that fail and succeed, with the delay of the answer              *)
(***************************************************************************)
\* <<email, password, mfa_cookie>>: a login, a wrong password, no password,
\* a New account, an unknown email, a login by MFA cookie, a cookie of
\* another user, a passkey-only account without and with a password, and a
\* cookie of a user without webauthn
LoginReqs ==
  { [BaseAuthorizeReq EXCEPT !.email = x[1], !.password = x[2], !.mfa_cookie = x[3]] :
      x \in { <<"u1@x", "pw", None>>, <<"u1@x", "bad", None>>, <<"u1@x", None, None>>,
              <<"u3@x", "pw", None>>, <<"nobody@x", "pw", None>>,
              <<"u2@x", None, "u2@x">>, <<"u2@x", None, "u1@x">>,
              <<"u4@x", None, None>>, <<"u4@x", "pw", None>>,
              <<"u1@x", None, "u1@x">> } }

PasswordLoginReqs ==
  { [client_id |-> "c2", client_secret |-> None, username |-> x[1],
     password |-> x[2], origin |-> None] :
      x \in { <<"u2@x", "pw">>, <<"u2@x", "bad">>, <<"u3@x", "pw">>,
              <<"nobody@x", "pw">>, <<"u2@x", None>> } }

\* ms a login took: less than, as long as, and longer than the first average
LoginDurations == {100, DEFAULT_LOGIN_TIME, DEFAULT_LOGIN_TIME + 500}

NextLogin ==
  \/ \E req \in LoginReqs : authorize_call(req)
  \/ \E delta \in LoginDurations : handle_login_delay(delta)
  \/ \E req \in PasswordLoginReqs : grant_type_password(req)
  \/ deliver

SpecLogin == Init /\ [][NextLogin]_vars

(***************************************************************************)
(* handle_login_delay over sequences of login results                      *)
(***************************************************************************)
\* res: a login with the password hashed, a login without, a failed login
LoginResults ==
  { AuthResp(BaseAuthorizeReq, Ok, "LoggedIn", Location(BaseAuthorizeReq, 1), TRUE),
    AuthResp([BaseAuthorizeReq EXCEPT !.password = None, !.mfa_cookie = "u1@x"], Ok,
             "LoggedIn", Location(BaseAuthorizeReq, 1), FALSE),
    AuthResp([BaseAuthorizeReq EXCEPT !.password = "bad"], InvalidCredentials, None,
             NoLocation, FALSE) }

\* the handler of the login has the result of authorize at hand
login_result(res) ==
  /\ resp = NoResp
  /\ resp' = res
  /\ UNCHANGED <<login_time, now, ticks, users, sessions, auth_codes, next_code,
                 refresh_tokens, next_tok, jwks, jwk_latest, next_kid, webauthn_reqs,
                 procs, issued>>

NextDelay ==
  \/ \E res \in LoginResults : login_result(res)
  \/ \E delta \in LoginDurations : handle_login_delay(delta)
  \/ deliver

SpecDelay == Init /\ [][NextDelay]_vars

(***************************************************************************)
(* handle_login_delay of two logins at once                                *)
(*                                                                         *)
(* The handler suspends on cache_get and on cache_put, and no lock is held *)
(* between them: call p is split into the read of the average with the     *)
(* measurement of delta (cache_get_login_time) and the rest, which stores  *)
(* the new average or sleeps and answers (cache_put_login_time). Each call *)
(* handles one login and keeps its locals once it has answered.            *)
(***************************************************************************)
\* res: the result of authorize, delta: the ms since the start of the login
cache_get_login_time(p, res, delta) ==
  /\ resp = NoResp
  /\ procs[p].pc = "idle"
  /\ procs' = [procs EXCEPT
                 ![p] = [pc |-> "time_read", res |-> res, delta |-> delta,
                         success_time |-> IF login_time = NoLoginTime
                                            THEN DEFAULT_LOGIN_TIME
                                          ELSE login_time]]
  /\ UNCHANGED <<login_time, resp, now, ticks, users, sessions, auth_codes, next_code,
                 refresh_tokens, next_tok, jwks, jwk_latest, next_kid, webauthn_reqs,
                 issued>>

cache_put_login_time(p) ==
  /\ resp = NoResp
  /\ procs[p].pc = "time_read"
  /\ LET res == procs[p].res
         delta == procs[p].delta
         success_time == procs[p].success_time
     IN IF res.kind = "Ok"
          THEN /\ login_time' = stored_time(res.has_password_been_hashed, login_time,
                                             success_time, delta)
               /\ resp' = DelayResp(res, delta, success_time, 0)
        ELSE /\ login_time' = login_time
             /\ resp' = DelayResp(res, delta, success_time,
                                  sleep_time(delta, success_time))
  /\ procs' = [procs EXCEPT ![p].pc = "answered"]
  /\ UNCHANGED <<now, ticks, users, sessions, auth_codes, next_code, refresh_tokens,
                 next_tok, jwks, jwk_latest, next_kid, webauthn_reqs, issued>>

NextAverage ==
  \/ \E p \in Procs, res \in LoginResults, delta \in LoginDurations :
       cache_get_login_time(p, res, delta)
  \/ \E p \in Procs : cache_put_login_time(p)
  \/ deliver

SpecAverage == Init /\ [][NextAverage]_vars

(***************************************************************************)
(* Properties of the authorization code exchange                           *)
(***************************************************************************)
TokenSetsOf(c) == { ts \in issued : ts.code = c }

PassesClient(req) == validate_client(req, "authorization_code").kind = "Ok"

CodeAnswer == resp.op = "grant_type_code"

\* code_begin answers with an error (the request goes no further)
BeginFails == resp = NoResp /\ procs' = procs /\ resp'.op = "grant_type_code"

\* code_begin lets the request of p pass
BeginPasses(p) == procs[p].pc = "idle" /\ procs'[p].pc = "found"

\* C1: with one token request at a time, an auth code yields at most one token
\* set; once it has yielded one it is absent from the cache, and every later
\* request for it (that passes the client checks) fails with Unauthorized and
\* carries no tokens.
C1_SingleRedemption ==
  \A c \in 1..MaxCodes :
    /\ Cardinality(TokenSetsOf(c)) <= 1
    /\ TokenSetsOf(c) # {} =>
         /\ c \notin DOMAIN auth_codes
         /\ (CodeAnswer /\ resp.req.code = c /\ resp.ts \notin TokenSetsOf(c)
               /\ PassesClient(resp.req))
            => (resp.kind = "Unauthorized" /\ resp.ts = NoTokenSet)

C1_Witness ==
  \E c \in 1..MaxCodes :
    /\ TokenSetsOf(c) # {}
    /\ CodeAnswer /\ resp.req.code = c /\ PassesClient(resp.req)
    /\ resp.kind = "Unauthorized"

\* C2: two token requests for the same auth code that both read the code
\* before either deletes it return at most one token set between them.
C2_RaceYieldsOneTokenSet ==
  \A c \in 1..MaxCodes : Cardinality(TokenSetsOf(c)) <= 1

\* C6: a token request answered with "'code_verifier' does not match the
\* challenge" is Unauthorized and has deleted the auth code.
C6_MismatchDeletesCode ==
  (CodeAnswer /\ resp.msg = "'code_verifier' does not match the challenge")
    => (resp.kind = "Unauthorized" /\ resp.req.code \notin DOMAIN auth_codes)

\* a user who may authenticate: enabled, not expired, not of account type New
MayAuthenticate(u) ==
  /\ users[u].enabled
  /\ ~ (UserById(u).user_expires >= 0 /\ UserById(u).user_expires < now)
  /\ UserById(u).account_type # "New"

\* C7: no grant issues a token set for a user who is disabled, expired or of
\* account type New when the request looks the user up: authorize, the
\* password grant and the refresh_token grant answer Ok only for a user who
\* may authenticate, and the authorization_code exchange goes on to return
\* its token set only for such a user.
C7_NoTokensForBarredUser ==
  [][ /\ (/\ resp = NoResp
          /\ resp'.op \in {"authorize", "grant_type_password", "grant_type_refresh"}
          /\ resp'.kind = "Ok")
         => MayAuthenticate(IF resp'.op = "authorize"
                              THEN UserByEmail(resp'.req.email).id
                            ELSE resp'.ts.uid)
      /\ \A p \in Procs :
           (procs[p].pc = "found" /\ procs'[p].pc = "minted")
             => MayAuthenticate(procs[p].code.user_id) ]_vars

\* the code of a request is missing, past its exp or another client's
CodeUnusable(req) ==
  \/ req.code \notin DOMAIN auth_codes
  \/ auth_codes[req.code].exp < now
  \/ auth_codes[req.code].client_id # req.client_id

\* C8 as claimed: a token request (that passes the client checks) whose code
\* is missing, past its exp or bound to another client fails with Unauthorized
\* and carries no tokens.
C8_UnusableCodeUnauthorized ==
  [][ /\ \A p \in Procs : BeginPasses(p) => ~ CodeUnusable(procs'[p].req)
      /\ (BeginFails /\ PassesClient(resp'.req) /\ resp'.req.code # 0
            /\ CodeUnusable(resp'.req))
         => (resp'.kind = "Unauthorized" /\ resp'.ts = NoTokenSet) ]_vars

\* C8 as amended: such a request fails and carries no tokens; the error is
\* Unauthorized when the code is missing or bound to another client, and
\* SessionExpired when the code is there, bound to the requesting client and
\* past its exp.
C8_UnusableCodeFails ==
  [][ /\ \A p \in Procs : BeginPasses(p) => ~ CodeUnusable(procs'[p].req)
      /\ (BeginFails /\ PassesClient(resp'.req) /\ resp'.req.code # 0
            /\ CodeUnusable(resp'.req))
         => /\ resp'.ts = NoTokenSet
            /\ issued' = issued
            /\ resp'.kind =
                 IF \/ resp'.req.code \notin DOMAIN auth_codes
                    \/ auth_codes[resp'.req.code].client_id # resp'.req.client_id
                   THEN "Unauthorized"
                 ELSE "SessionExpired" ]_vars

C8_Witness ==
  /\ CodeAnswer /\ PassesClient(resp.req) /\ resp.kind = "Unauthorized"
  /\ resp.req.code \in DOMAIN auth_codes
  /\ auth_codes[resp.req.code].client_id # resp.req.client_id

\* the code of a request is in the cache, bound to the requesting client, and
\* its exp is earlier than now
CodeExpired(req) ==
  /\ req.code \in DOMAIN auth_codes
  /\ auth_codes[req.code].client_id = req.client_id
  /\ auth_codes[req.code].exp < now

\* C9: a token request for an expired auth code goes no further than the
\* expiry check: it is answered SessionExpired without a token set, no
\* refresh token row is written and no session changes.
C9_ExpiredCodeNeverRedeems ==
  [][ /\ \A p \in Procs : BeginPasses(p) => ~ CodeExpired(procs'[p].req)
      /\ (BeginFails /\ PassesClient(resp'.req) /\ CodeExpired(resp'.req))
         => /\ resp'.kind = "SessionExpired"
            /\ resp'.ts = NoTokenSet
            /\ issued' = issued
            /\ refresh_tokens' = refresh_tokens
            /\ sessions' = sessions ]_vars

C9_Witness ==
  /\ CodeAnswer /\ resp.kind = "SessionExpired"
  /\ CodeExpired(resp.req)
  /\ sessions[auth_codes[resp.req.code].session_id].state = "Init"

\* the verifier of a request matches a code's challenge under the code's method
PkceMatches(code, verifier) ==
  /\ verifier # None
  /\ \/ code.challenge_method = "plain" /\ verifier = code.challenge
     \/ code.challenge_method = "S256" /\ S256(verifier) = code.challenge

\* C10: a token request for a code with a PKCE challenge gets past the code
\* checks, and so to a token set, only with a verifier that matches the
\* challenge under the method recorded in the code.
C10_PkceGuardsRedemption ==
  \A p \in Procs :
    (procs[p].pc # "idle" /\ procs[p].code.challenge # None)
      => PkceMatches(procs[p].code, procs[p].req.code_verifier)

C10_Witness ==
  \E p \in Procs :
    /\ procs[p].pc = "minted"
    /\ procs[p].code.challenge_method = "S256"
    /\ procs[p].req.code_verifier = Verifier

(***************************************************************************)
(* Properties of the refresh_token grant                                   *)
(***************************************************************************)
\* the token sets returned for redemptions of the refresh token with tail r
Redemptions(r) == { ts \in issued : ts.from = r }

\* the time of the first successful redemption of r
FirstRedemption(r) ==
  LET times == { ts.access.iat : ts \in Redemptions(r) }
  IN CHOOSE t \in times : \A x \in times : t <= x

\* this step answers a refresh_token grant
RefreshStep == resp = NoResp /\ resp'.op = "grant_type_refresh"

\* every refresh token row of the user is past its exp after this step
AllInvalidated(uid) ==
  \A t \in DOMAIN refresh_tokens' :
    refresh_tokens'[t].user_id = uid => refresh_tokens'[t].exp < now

\* C3 as claimed: a refresh token that was redeemed once is not redeemed
\* again: every further refresh_token grant that presents it fails with
\* BadRequest, returns no token set and invalidates all refresh tokens of the
\* user.
C3_SecondRedemptionFails ==
  [][ (/\ RefreshStep
       /\ refresh_checks(resp'.req).kind = "Ok"
       /\ Redemptions(resp'.req.refresh_token.tail) # {})
      => /\ resp'.kind = "BadRequest"
         /\ resp'.ts = NoTokenSet
         /\ Cardinality({ ts \in issued' : ts.from = resp'.req.refresh_token.tail }) <= 1
         /\ AllInvalidated(resp'.req.refresh_token.uid) ]_vars

\* C3 as amended: a redemption later than refresh_grace_time + 1 seconds after
\* the first successful redemption of the token fails with BadRequest, returns
\* no token set and invalidates all refresh tokens of the user; a redemption
\* while the persisted exp has not passed returns a token set for an enabled,
\* unexpired user, also when the token was redeemed before.
C3_RedemptionEndsAfterGrace ==
  [][ /\ (/\ RefreshStep
          /\ refresh_checks(resp'.req).kind = "Ok"
          /\ Redemptions(resp'.req.refresh_token.tail) # {}
          /\ now > FirstRedemption(resp'.req.refresh_token.tail) + REFRESH_GRACE_TIME + 1)
         => /\ resp'.kind = "BadRequest"
            /\ resp'.ts = NoTokenSet
            /\ issued' = issued
            /\ AllInvalidated(resp'.req.refresh_token.uid)
      /\ (/\ RefreshStep
          /\ refresh_checks(resp'.req).kind = "Ok"
          /\ refresh_tokens[resp'.req.refresh_token.tail].exp >= now
          /\ MayAuthenticate(resp'.req.refresh_token.uid))
         => /\ resp'.kind = "Ok"
            /\ resp'.ts.from = resp'.req.refresh_token.tail
            /\ resp'.ts \in issued' ]_vars

\* a redeemed token presented after its grace time, with another token of the
\* user invalidated by the answer
C3_Witness ==
  /\ resp.op = "grant_type_refresh"
  /\ resp.kind = "BadRequest"
  /\ resp.msg = RefreshMisuse.msg
  /\ Redemptions(resp.req.refresh_token.tail) # {}
  /\ now > FirstRedemption(resp.req.refresh_token.tail) + REFRESH_GRACE_TIME + 1
  /\ \E t \in DOMAIN refresh_tokens :
       /\ t # resp.req.refresh_token.tail
       /\ refresh_tokens[t].user_id = resp.req.refresh_token.uid
       /\ refresh_tokens[t].exp = now - 1

\* C4: a refresh_token grant that presents a token whose persisted handle has
\* exp < now fails with BadRequest, returns no token set, leaves the user's
\* last_login alone and leaves every refresh token row of the user past its
\* exp, so that any of them presented afterwards is rejected the same way.
C4_ExpiredHandleInvalidatesAll ==
  [][ (/\ RefreshStep
       /\ refresh_checks(resp'.req).kind = "Ok"
       /\ refresh_tokens[resp'.req.refresh_token.tail].exp < now)
      => /\ resp'.kind = "BadRequest"
         /\ resp'.ts = NoTokenSet
         /\ issued' = issued
         /\ users' = users
         /\ AllInvalidated(resp'.req.refresh_token.uid) ]_vars

\* R1 was presented past its handle's exp, and R2 of the same user, never
\* redeemed and inside the 48 h that follow its nbf, is past its exp now
C4_Witness ==
  /\ resp.op = "grant_type_refresh"
  /\ resp.msg = RefreshMisuse.msg
  /\ \E t \in DOMAIN refresh_tokens :
       /\ t # resp.req.refresh_token.tail
       /\ refresh_tokens[t].user_id = resp.req.refresh_token.uid
       /\ Redemptions(t) = {}
       /\ refresh_tokens[t].nbf + 48 * 3600 >= now
       /\ refresh_tokens[t].exp < now

(***************************************************************************)
(* Properties of the keys                                                  *)
(***************************************************************************)
\* C5: rotate_jwks leaves every stored key in place, and every access token
\* issued so far is accepted by validate_token at every time from its iat to
\* its exp, whatever rotations ran since it was signed; validate_token
\* rejects an issued token only past its exp.
C5_AccessTokenOutlivesRotation ==
  [][ /\ jwks \subseteq jwks'
      /\ \A ts \in issued' :
           (ts.access.iat <= now' /\ now' <= ts.access.exp)
             => validate_jwt(ts.access, jwks', now').kind = "Ok"
      /\ (/\ resp'.op = "validate_token"
          /\ resp'.req \in { ts.access : ts \in issued }
          /\ resp'.kind # "Ok")
         => resp'.req.exp < now ]_vars

\* a token signed with a key that two rotations have superseded is accepted
\* in the last second of its lifetime
C5_Witness ==
  /\ resp.op = "validate_token"
  /\ resp.kind = "Ok"
  /\ resp.req.exp = now
  /\ Cardinality({ k \in jwks : k.alg = "RS256" /\ k.kid > resp.req.kid }) >= 2

(***************************************************************************)
(* Properties of the session store                                         *)
(***************************************************************************)
\* C11: the stored state of a session only ever moves to Auth from Init: no
\* step moves a session from Auth back to Init, and no step moves a session
\* that is LoggedOut or Unknown to Auth.
C11_SessionStateMonotonic ==
  [][ \A sid \in SessionIds :
        /\ sessions[sid].state = "Auth" => sessions'[sid].state # "Init"
        /\ (sessions'[sid].state = "Auth" /\ sessions[sid].state # "Auth")
             => sessions[sid].state = "Init" ]_vars

(***************************************************************************)
(* Properties of the logins                                                *)
(***************************************************************************)
\* the stored password of an email differs from the one given
WrongPassword(email, password) ==
  /\ email \in Emails
  /\ password # None
  /\ password # UserByEmail(email).password

\* a login by authorize that fails for an unknown email, a New account, a
\* missing password without passkey-only account or valid MFA cookie, or a
\* wrong password
AuthorizeBadLogin(req) ==
  \/ req.email \notin Emails
  \/ UserByEmail(req.email).account_type = "New"
  \/ /\ req.password = None
     /\ UserByEmail(req.email).account_type # "Passkey"
     /\ ~ (req.mfa_cookie = req.email /\ UserByEmail(req.email).webauthn)
  \/ WrongPassword(req.email, req.password)

\* a well-formed password grant that fails for an unknown email, a New
\* account or a wrong password
PasswordBadLogin(req) ==
  /\ password_client(req).kind = "Ok"
  /\ \/ req.username \notin Emails
     \/ UserByEmail(req.username).account_type = "New"
     \/ WrongPassword(req.username, req.password)

\* C12: authorize answers every login that fails for an unknown email, a New
\* account, a missing password or a wrong password with one and the same
\* response, Unauthorized "Invalid user credentials"; so does the password
\* grant; and the delay of the answer hands the error on as it is.
C12_BadLoginsLookAlike ==
  [][ /\ (resp = NoResp /\ resp'.op = "authorize" /\ AuthorizeBadLogin(resp'.req))
         => [resp' EXCEPT !.req = None]
              = AuthResp(None, InvalidCredentials, None, NoLocation, FALSE)
      /\ (resp = NoResp /\ resp'.op = "grant_type_password"
            /\ PasswordBadLogin(resp'.req))
         => [resp' EXCEPT !.req = None]
              = Resp("grant_type_password", None, InvalidCredentials, NoTokenSet)
      /\ (resp.op = "authorize" /\ resp'.op = "handle_login_delay")
         => (resp'.kind = resp.kind /\ resp'.msg = resp.msg) ]_vars

\* a wrong password at the password grant, answered like an unknown email
C12_Witness ==
  /\ resp.op = "grant_type_password"
  /\ WrongPassword(resp.req.username, resp.req.password)
  /\ UserByEmail(resp.req.username).account_type # "New"
  /\ resp.kind = "Unauthorized"
  /\ resp.msg = "Invalid user credentials"

\* C13: a failed login is answered after a sleep of max(0, average - time
\* taken) ms, where the average is the cached one, 2000 without one; the error
\* is handed on unchanged and the cache is left alone, so time taken plus
\* sleep is at least the average that was read.
C13_FailedLoginSleeps ==
  [][ (resp.op = "authorize" /\ resp.kind # "Ok" /\ resp'.op = "handle_login_delay")
      => LET avg == IF login_time = NoLoginTime THEN DEFAULT_LOGIN_TIME ELSE login_time
         IN /\ resp'.success_time = avg
            /\ resp'.sleep_time =
                 (IF avg - resp'.time_taken > 0 THEN avg - resp'.time_taken ELSE 0)
            /\ resp'.time_taken + resp'.sleep_time >= avg
            /\ resp'.kind = resp.kind
            /\ resp'.msg = resp.msg
            /\ login_time' = login_time ]_vars

\* a failed login that slept against an average a successful login had written
C13_Witness ==
  /\ resp.op = "handle_login_delay"
  /\ resp.kind = "Unauthorized"
  /\ login_time # NoLoginTime
  /\ resp.success_time = login_time
  /\ resp.sleep_time > 0

(***************************************************************************)
(* Properties of the permissions                                           *)
(***************************************************************************)
\* a request with an authenticated session and a valid token of another user
SessionAndTokenDisagree(r) ==
  /\ r.op = "permission_extractor"
  /\ r.kind = "Ok"
  /\ r.req.session # None
  /\ r.req.bearer # NoJwt
  /\ r.principal.has_session
  /\ r.req.bearer.uid # r.principal.user_id

\* C14: at an authenticated session and a bearer token of another user the
\* session wins: the principal is the session's, without token and email, and
\* the permissions hold none of the token's ROLE_ entries and no 'token-auth'.
C14_SessionWins ==
  SessionAndTokenDisagree(resp)
    => /\ resp.principal = session_principal(resp.req.session)
       /\ ~ resp.principal.has_token
       /\ resp.principal.email = None
       /\ \A i \in 1..Len(resp.res) :
            /\ resp.res[i] # "token-auth"
            /\ \A j \in 1..Len(get_roles(resp.req.bearer.uid)) :
                 resp.res[i] # "ROLE_" \o get_roles(resp.req.bearer.uid)[j]

(***************************************************************************)
(* Properties of the client_credentials grant                              *)
(***************************************************************************)
\* C15: the client_credentials grant succeeds only for a confidential,
\* enabled client that gives its secret and is permitted the flow; it writes
\* no refresh handle and returns no refresh token, and the access token it
\* returns has neither sub nor uid.
C15_MachineTokens ==
  [][ (resp = NoResp /\ resp'.op = "grant_type_credentials")
      => /\ refresh_tokens' = refresh_tokens
         /\ resp'.ts.refresh = NoJwt
         /\ resp'.kind = "Ok"
            => /\ resp'.req.client_id \in ClientIds
               /\ ClientById(resp'.req.client_id).confidential
               /\ ClientById(resp'.req.client_id).enabled
               /\ resp'.req.client_secret = ClientById(resp'.req.client_id).secret
               /\ "client_credentials" \in ClientById(resp'.req.client_id).flows
               /\ resp'.ts.access.typ = "Bearer"
               /\ resp'.ts.access.azp = resp'.req.client_id
               /\ resp'.ts.access.sub = None
               /\ resp'.ts.access.uid = None ]_vars

\* a machine got its token
C15_Witness ==
  /\ resp.op = "grant_type_credentials"
  /\ resp.kind = "Ok"
  /\ resp.ts.access.typ = "Bearer"
  /\ resp.ts.refresh = NoJwt

(***************************************************************************)
(* Properties of the token endpoint                                        *)
(***************************************************************************)
\* the grant_type an answer of the token endpoint belongs to
GrantOf(op) ==
  CASE op = "grant_type_code" -> "authorization_code"
    [] op = "grant_type_credentials" -> "client_credentials"
    [] op = "grant_type_password" -> "password"
    [] op = "grant_type_refresh" -> "refresh_token"
    [] OTHER -> None

\* the request names a client that is not permitted the grant
NotPermitted(op, req) ==
  /\ GrantOf(op) # None
  /\ req.client_id \in ClientIds
  /\ GrantOf(op) \notin ClientById(req.client_id).flows

\* a confidential client gave a secret that is not its own
WrongSecret(req) ==
  /\ ClientById(req.client_id).confidential
  /\ req.client_secret \notin {None, ClientById(req.client_id).secret}

\* C16: the token endpoint issues tokens only for a grant the client is
\* permitted and, at a confidential client, only with the client's secret; a
\* grant that is not permitted fails, with BadRequest unless a wrong secret
\* failed before, and a grant_type outside the four fails with BadRequest;
\* both leave auth codes, refresh handles and sessions as they are.
C16_GrantsNeedPermission ==
  [][ resp = NoResp =>
        /\ (resp'.op # "none" /\ GrantOf(resp'.op) # None /\ resp'.kind = "Ok")
           => /\ resp'.req.client_id \in ClientIds
              /\ GrantOf(resp'.op) \in ClientById(resp'.req.client_id).flows
              /\ ClientById(resp'.req.client_id).confidential
                 => resp'.req.client_secret = ClientById(resp'.req.client_id).secret
        /\ issued' # issued => (GrantOf(resp'.op) # None /\ resp'.kind = "Ok")
        /\ NotPermitted(resp'.op, resp'.req)
           => /\ resp'.kind # "Ok"
              /\ ~ WrongSecret(resp'.req) => resp'.kind = "BadRequest"
              /\ UNCHANGED <<auth_codes, refresh_tokens, sessions, issued>>
        /\ resp'.op = "get_token_set"
           => /\ resp'.kind = "BadRequest"
              /\ UNCHANGED <<auth_codes, refresh_tokens, sessions, issued>> ]_vars

\* a refresh token of c1 presented by c4, which is not permitted the grant
C16_Witness ==
  /\ resp.op = "grant_type_refresh"
  /\ resp.req.client_id = "c4"
  /\ resp.req.client_secret = "secret4"
  /\ resp.req.refresh_token # NoJwt
  /\ resp.kind = "BadRequest"
  /\ resp.msg = "flow is not allowed for this client"

(***************************************************************************)
(* Properties of the allow-lists                                           *)
(***************************************************************************)
\* the entry equals the candidate, or it ends with '*' and the candidate
\* starts with what the entry holds before its first '*'
Accepts(entry, candidate) ==
  \/ entry = candidate
  \/ /\ Len(entry) > 0
     /\ SubSeq(entry, Len(entry), Len(entry)) = "*"
     /\ \E k \in 1..Len(entry) :
          /\ SubSeq(entry, k, k) = "*"
          /\ \A j \in 1..(k - 1) : SubSeq(entry, j, j) # "*"
          /\ Len(candidate) >= k - 1
          /\ \A j \in 1..(k - 1) : SubSeq(candidate, j, j) = SubSeq(entry, j, j)

\* C17: a redirect URI is accepted if and only if an entry of the allow-list
\* equals it, or ends with '*' while the URI starts with the entry's prefix
\* before the '*'; the entry https://a.example/* accepts https://a.example/x
\* and https://a.example/ and rejects https://a.example and
\* https://b.example/x.
C17_RedirectUriAccepted ==
  resp.op = "validate_auth_req_param"
    => /\ resp.kind = "Ok"
            <=> \E i \in 1..Len(resp.req.uris) :
                  Accepts(resp.req.uris[i], resp.req.redirect_uri)
       /\ resp.kind # "Ok" => (resp.kind = "BadRequest" /\ resp.msg = "Invalid redirect uri")
       /\ resp.req.uris = <<"https://a.example/*">>
            => (resp.kind = "Ok"
                  <=> resp.req.redirect_uri \in {"https://a.example/x", "https://a.example/"}
                        \cup (RedirectUris \ {"https://a.example", "https://b.example/x",
                                              "https://a.example.evil/",
                                              "https://x.a.example/", ""}))

\* the wildcard rejected the URI that lacks its slash
C17_Witness ==
  /\ resp.op = "validate_auth_req_param"
  /\ resp.req.uris = <<"https://a.example/*">>
  /\ resp.req.redirect_uri = "https://a.example"
  /\ resp.kind = "BadRequest"

(***************************************************************************)
(* Properties of logout                                                    *)
(***************************************************************************)
\* the hint verifies as an ID token of this issuer
ValidHint(token) ==
  /\ token # NoJwt
  /\ \E key \in jwks : key.kid = token.kid
  /\ token.iss = ISSUER
  /\ token.iat <= now
  /\ now <= token.exp
  /\ token.typ = "Id"

\* the URI matches the post-logout allow-list of the client
PostLogoutAllowed(client_id, uri) ==
  \E i \in 1..Len(post_logout_redirect_uris(client_id)) :
    Accepts(post_logout_redirect_uris(client_id)[i], uri)

\* C18: logout bypasses the confirmation only for a valid hint: without a
\* hint the confirmation page is returned; with one, the bypass needs a hint
\* that verifies with typ = Id and, if a post_logout_redirect_uri is given, a
\* match of it in the allow-list of the client of the hint's azp; a token
\* that is no ID token, a client without allow-list and a URI without match
\* are answered with BadRequest and without bypass.
C18_LogoutBypass ==
  resp.op = "logout"
    => /\ resp.req.id_token_hint = NoJwt => (resp.kind = "Ok" /\ ~ resp.bypass)
       /\ resp.bypass
            <=> /\ ValidHint(resp.req.id_token_hint)
                /\ resp.req.post_logout_redirect_uri # None
                     => PostLogoutAllowed(resp.req.id_token_hint.azp,
                                          resp.req.post_logout_redirect_uri)
       /\ resp.bypass => resp.kind = "Ok"
       /\ ( /\ validate_token(resp.req.id_token_hint).kind = "Ok"
            /\ resp.req.id_token_hint # NoJwt
            /\ ~ resp.bypass )
            => resp.kind = "BadRequest"

\* an ID token of a client without allow-list, with a URI: no bypass
C18_Witness ==
  /\ resp.op = "logout"
  /\ ValidHint(resp.req.id_token_hint)
  /\ resp.req.id_token_hint.azp = "c2"
  /\ resp.req.post_logout_redirect_uri # None
  /\ resp.kind = "BadRequest"
  /\ ~ resp.bypass

(***************************************************************************)
(* Properties of the grace time                                            *)
(***************************************************************************)
\* C19: a successful redemption at time now rewrites the exp of the handle to
\* now + refresh_grace_time if it was later than now + refresh_grace_time + 1
\* and leaves the handle as it is otherwise; no redemption of a token
\* succeeds later than refresh_grace_time + 1 seconds after its first one.
C19_GraceRule ==
  [][ (RefreshStep /\ resp'.kind = "Ok")
      => LET r == resp'.req.refresh_token.tail
         IN /\ refresh_tokens[r].exp > now + REFRESH_GRACE_TIME + 1
                 => refresh_tokens'[r]
                      = [refresh_tokens[r] EXCEPT !.exp = now + REFRESH_GRACE_TIME]
            /\ refresh_tokens[r].exp <= now + REFRESH_GRACE_TIME + 1
                 => refresh_tokens'[r] = refresh_tokens[r]
            /\ \A ts \in issued' :
                 ts.from = r
                   => \A first \in issued' :
                        first.from = r
                          => ts.access.iat <= first.access.iat + REFRESH_GRACE_TIME + 1 ]_vars

\* a second redemption in the last second the first one left to the handle,
\* whose exp was one second past the grace time and so was left as it was
C19_Witness ==
  /\ resp.op = "grant_type_refresh"
  /\ resp.kind = "Ok"
  /\ Cardinality(Redemptions(resp.req.refresh_token.tail)) = 2
  /\ now = FirstRedemption(resp.req.refresh_token.tail) + REFRESH_GRACE_TIME + 1
  /\ refresh_tokens[resp.req.refresh_token.tail].exp = now

(***************************************************************************)
(* Properties of the nbf of a refresh token                                *)
(***************************************************************************)
\* C20: no refresh_token grant returns a token set for a refresh token whose
\* persisted handle has an nbf later than now, the nbf being the time the
\* token was minted plus the access token lifetime less 60 seconds.
C20_UnusableBeforeNbf ==
  [][ (/\ RefreshStep
       /\ refresh_checks(resp'.req).kind = "Ok"
       /\ now < refresh_tokens[resp'.req.refresh_token.tail].nbf)
      => /\ resp'.kind # "Ok"
         /\ resp'.ts = NoTokenSet
         /\ issued' = issued ]_vars

(***************************************************************************)
(* Properties of the session update of the code flow                       *)
(***************************************************************************)
\* this step ends a token request that had passed the checks of the client
\* and of the code with an error
SessionUpdateFails ==
  /\ resp = NoResp
  /\ procs[1].pc = "found"
  /\ resp'.op = "grant_type_code"
  /\ resp'.kind # "Ok"

\* C21: a token request that has passed the checks of the client, of the
\* code's expiry and of PKCE deletes the code whatever the session update
\* does: when the session is not found, when validate_user_expiry fails and
\* when the save fails, the code is gone from the store and the error of the
\* session is returned.
C21_CodeDeletedWhateverTheSession ==
  [][ SessionUpdateFails
      => /\ procs[1].code.id \notin DOMAIN auth_codes'
         /\ resp'.ts = NoTokenSet ]_vars

\* this step saves the session of the code of a token request
SessionSaved ==
  /\ resp = NoResp
  /\ procs[1].pc = "found"
  /\ procs'[1].pc = "minted"
  /\ procs[1].code.session_id # None

\* the session of the code after the save: Auth, bound to the user of the
\* code with the user's roles and groups, seen now, and else as it was
SavedSession ==
  [sessions[procs[1].code.session_id] EXCEPT
     !.state = "Auth", !.user_id = procs[1].code.user_id,
     !.roles = get_roles(procs[1].code.user_id),
     !.groups = get_groups(procs[1].code.user_id),
     !.last_seen = now]

\* this step answers a token request with an error
ExchangeFails ==
  /\ resp = NoResp
  /\ resp'.op = "grant_type_code"
  /\ resp'.kind # "Ok"

\* C22 as claimed: an exchange of a code bound to a session saves the session
\* with state Auth, the user of the code, the user's roles and groups and
\* last_seen = now, and the answer that follows leaves it so; an exchange that
\* fails has not changed the stored session.
C22_FailedExchangeKeepsSession ==
  [][ /\ SessionSaved => sessions' = [sessions EXCEPT ![procs[1].code.session_id] = SavedSession]
      /\ (resp = NoResp /\ resp'.op = "grant_type_code" /\ resp'.kind = "Ok")
           => sessions' = sessions
      /\ ExchangeFails => (sessions' = sessions /\ procs[1].pc # "minted") ]_vars

\* C22 as amended: an exchange of a code bound to a session saves the session
\* with state Auth, the user of the code, the user's roles and groups and
\* last_seen = now, and the answer that follows leaves it so; an exchange that
\* fails before the save has not changed the stored session, and one that
\* fails after it, when the code cannot be deleted, leaves the session saved.
C22_SessionAfterExchange ==
  [][ /\ SessionSaved => sessions' = [sessions EXCEPT ![procs[1].code.session_id] = SavedSession]
      /\ (resp = NoResp /\ resp'.op = "grant_type_code" /\ resp'.kind = "Ok")
           => sessions' = sessions
      /\ ExchangeFails
           => /\ sessions' = sessions
              /\ procs[1].pc = "minted" => resp'.msg = StoreError.msg ]_vars

\* the answer to an exchange at a time after 0 whose session is saved
C22_Witness ==
  /\ resp.op = "grant_type_code"
  /\ resp.kind = "Ok"
  /\ resp.ts.code = 1
  /\ "s1" \in DOMAIN sessions
  /\ sessions["s1"].state = "Auth"
  /\ sessions["s1"].user_id = "u1"
  /\ sessions["s1"].roles = get_roles("u1")
  /\ sessions["s1"].groups = get_groups("u1")
  /\ sessions["s1"].last_seen = now
  /\ now > 0

(***************************************************************************)
(* Properties of authorize                                                 *)
(***************************************************************************)
\* this step answers a call of authorize
AuthorizeStep == resp = NoResp /\ resp'.op = "authorize"

\* the request may log in without a password: the account is passkey-only,
\* or the MFA cookie is bound to the email of a user with webauthn
PasswordlessAllowed(req) ==
  /\ req.email \in Emails
  /\ \/ UserByEmail(req.email).account_type = "Passkey"
     \/ /\ req.mfa_cookie = UserByEmail(req.email).email
        /\ UserByEmail(req.email).webauthn

\* C23: authorize without a password succeeds only for a passkey-only account
\* or with a valid MFA cookie bound to the email of a user with webauthn; every
\* other call without a password is answered Unauthorized and creates no auth
\* code; a successful call reports has_password_been_hashed exactly when a
\* password was given, and that password is the one of the user.
C23_PasswordlessLogin ==
  [][ AuthorizeStep
      => /\ (resp'.req.password = None /\ resp'.kind = "Ok")
              => PasswordlessAllowed(resp'.req)
         /\ (resp'.req.password = None /\ ~ PasswordlessAllowed(resp'.req))
              => /\ resp'.kind = "Unauthorized"
                 /\ auth_codes' = auth_codes
                 /\ next_code' = next_code
         /\ resp'.kind = "Ok"
              => (resp'.has_password_been_hashed <=> resp'.req.password # None)
         /\ resp'.has_password_been_hashed
              => /\ resp'.req.password # None
                 /\ resp'.req.password = UserByEmail(resp'.req.email).password ]_vars

\* a login by the MFA cookie alone
C23_Witness ==
  /\ resp.op = "authorize"
  /\ resp.kind = "Ok"
  /\ resp.req.password = None
  /\ resp.req.mfa_cookie = resp.req.email
  /\ UserByEmail(resp.req.email).account_type # "Passkey"
  /\ ~ resp.has_password_been_hashed

\* this step answers a call of authorize with a success
AuthorizeSucceeds == AuthorizeStep /\ resp'.kind = "Ok"

\* redirect_uri?code=<id of the code minted by this step>[&state=<state>]
RedirectLocation ==
  resp'.req.redirect_uri \o "?code=" \o ToString(next_code)
    \o (IF resp'.req.state = None THEN "" ELSE "&state=" \o resp'.req.state)

\* C24: a successful authorize ends as the webauthn flag of the user decides:
\* with webauthn it returns AwaitWebauthn with a code of 48 characters and has
\* stored one WebauthnLoginReq, found by that code, that holds the location
\* redirect_uri?code=<auth code id>[&state=<state>]; without webauthn it
\* returns LoggedIn with that location and stores no WebauthnLoginReq.
C24_AwaitWebauthnOrLoggedIn ==
  [][ AuthorizeSucceeds
      => /\ next_code \in DOMAIN auth_codes'
         /\ UserByEmail(resp'.req.email).webauthn
              => /\ resp'.step = "AwaitWebauthn"
                 /\ Len(resp'.code) = 48
                 /\ \A row \in webauthn_reqs : row.code # resp'.code
                 /\ \E row \in webauthn_reqs' :
                      /\ webauthn_reqs' = webauthn_reqs \cup {row}
                      /\ row.code = resp'.code
                      /\ row.user_id = UserByEmail(resp'.req.email).id
                      /\ row.header_loc = RedirectLocation
         /\ ~ UserByEmail(resp'.req.email).webauthn
              => /\ resp'.step = "LoggedIn"
                 /\ resp'.header_loc = RedirectLocation
                 /\ webauthn_reqs' = webauthn_reqs ]_vars

\* a login of a user with webauthn with a state: the stored request holds
\* the location with code and state
C24_Witness ==
  /\ resp.op = "authorize"
  /\ resp.step = "AwaitWebauthn"
  /\ \E row \in webauthn_reqs :
       /\ row.code = resp.code
       /\ row.header_loc = "https://app.example/cb?code=1&state=xyz"

\* C25: the session is flagged is_mfa as soon as authorize enters the webauthn
\* branch, while the answer is still AwaitWebauthn; authorize writes no flag
\* for a user without webauthn; a flag once set stays set whatever follows.
C25_MfaFlagSetOnBranch ==
  [][ /\ AuthorizeSucceeds /\ UserByEmail(resp'.req.email).webauthn
        => /\ resp'.step = "AwaitWebauthn"
           /\ sessions'[resp'.req.session].is_mfa
      /\ AuthorizeStep /\ ~ (resp'.kind = "Ok" /\ UserByEmail(resp'.req.email).webauthn)
        => \A s \in DOMAIN sessions : sessions'[s].is_mfa = sessions[s].is_mfa
      /\ \A s \in DOMAIN sessions \cap DOMAIN sessions' :
           sessions[s].is_mfa => sessions'[s].is_mfa ]_vars

\* the ceremony of s1 was never completed: the answer is long delivered, the
\* request for the second factor has run out, and the flag is still set
C25_Witness ==
  /\ resp = NoResp
  /\ sessions["s1"].is_mfa
  /\ sessions["s1"].state = "Init"
  /\ \E code \in DOMAIN auth_codes : auth_codes[code].exp < now

\* C27: a code minted by authorize lives client.auth_code_lifetime, and
\* WEBAUTHN_REQ_EXP longer when the user has webauthn enabled.
C27_CodeLifetime ==
  [][ AuthorizeSucceeds
      => auth_codes'[next_code].exp - now
           = ClientById(resp'.req.client_id).auth_code_lifetime
               + (IF UserByEmail(resp'.req.email).webauthn THEN WEBAUTHN_REQ_EXP ELSE 0)
    ]_vars

\* a code of a webauthn user at c4: 120 seconds of the client and 60 of the
\* ceremony
C27_Witness ==
  /\ resp.op = "authorize"
  /\ resp.step = "AwaitWebauthn"
  /\ resp.req.client_id = "c4"
  /\ \E code \in DOMAIN auth_codes :
       /\ auth_codes[code].client_id = "c4"
       /\ auth_codes[code].exp = now + 180

\* the method asked for with a challenge: plain when none is named
RequestedMethod(req) ==
  IF req.code_challenge_method = None THEN "plain" ELSE req.code_challenge_method

\* a challenge that the client of the request may not use
ChallengeRefused(req) ==
  /\ req.code_challenge # None
  /\ \/ ClientById(req.client_id).challenge = {}
     \/ RequestedMethod(req) \notin {"plain", "S256"}
     \/ RequestedMethod(req) \notin ClientById(req.client_id).challenge

\* C26: a code minted by authorize holds the challenge of the request, with
\* the requested method or plain when none is named, and that method is one
\* the client allows; a code without a challenge holds no method.  A request
\* with a challenge at a client without PKCE, with an unknown method or with
\* a method the client does not allow, is answered BadRequest once the user
\* and the origin have passed, and no code is created.
C26_ChallengeMethodAllowed ==
  [][ AuthorizeStep
      => /\ resp'.kind = "Ok"
              => /\ auth_codes'[next_code].challenge = resp'.req.code_challenge
                 /\ resp'.req.code_challenge = None
                      => auth_codes'[next_code].challenge_method = None
                 /\ resp'.req.code_challenge # None
                      => /\ auth_codes'[next_code].challenge_method
                              = RequestedMethod(resp'.req)
                         /\ auth_codes'[next_code].challenge_method
                              \in {"plain", "S256"}
                                    \cap ClientById(resp'.req.client_id).challenge
         /\ ( /\ ChallengeRefused(resp'.req)
              /\ resp'.kind \notin {"Unauthorized", "Forbidden", "NotFound"} )
              => /\ resp'.kind = "BadRequest"
                 /\ auth_codes' = auth_codes
                 /\ next_code' = next_code ]_vars

\* a challenge without a method at c2 is stored as plain
C26_Witness ==
  /\ resp.op = "authorize"
  /\ resp.kind = "Ok"
  /\ resp.req.code_challenge = Verifier
  /\ resp.req.code_challenge_method = None
  /\ \E code \in DOMAIN auth_codes :
       /\ auth_codes[code].challenge = Verifier
       /\ auth_codes[code].challenge_method = "plain"

\* handle_login_delay answers the login that resp holds
DelayStep == resp.op = "authorize" /\ resp'.op = "handle_login_delay"

\* the average the handler starts from
StoredOrDefault == IF login_time = NoLoginTime THEN 2000 ELSE login_time

\* C28: a successful login with the password hashed stores
\* floor((avg + observed) / 2), avg being the stored average or 2000; the
\* stored average is never negative and never leaves the range of 2000 and
\* the observed times: each new value lies between the old one and the
\* observed time.
C28_AverageOfLoginTimes ==
  [][ /\ ( DelayStep /\ resp.kind = "Ok" /\ resp.has_password_been_hashed )
        => /\ 2 * login_time' <= StoredOrDefault + resp'.time_taken
           /\ StoredOrDefault + resp'.time_taken <= 2 * login_time' + 1
           /\ \/ StoredOrDefault <= login_time' /\ login_time' <= resp'.time_taken
              \/ resp'.time_taken <= login_time' /\ login_time' <= StoredOrDefault
      /\ login_time' # NoLoginTime
        => /\ login_time' >= 0
           /\ \E lo, hi \in LoginDurations \cup {2000} :
                lo <= login_time' /\ login_time' <= hi ]_vars

\* a stored average that is not the default met an observed time with an odd
\* sum: the half is rounded down
C28_Witness ==
  /\ resp.op = "handle_login_delay"
  /\ resp.kind = "Ok"
  /\ resp.success_time # 2000
  /\ resp.success_time + resp.time_taken = 2 * login_time + 1

NewestKid(alg) ==
  CHOOSE kid \in { k.kid : k \in { j \in jwks : j.alg = alg } } :
    \A j \in jwks : j.alg = alg => j.kid <= kid

\* C30: a run of rotate_jwks that returns Ok has stored one new key for each
\* of the four algorithms beside the keys that were there and has emptied
\* the four latest-by-algorithm cache entries; a token request that begins
\* once a rotation has completed is signed with the key of that rotation,
\* whatever token requests ran beside the rotation.
C30_SignedWithRotatedKey ==
  [][ /\ ( resp = NoResp /\ resp'.op = "rotate_jwks" )
        => /\ jwks \subseteq jwks'
           /\ \A alg \in Algs :
                Cardinality({ k \in jwks' \ jwks : k.alg = alg }) = 1
           /\ jwk_latest' = EmptyLatest
      /\ ( /\ resp = NoResp
           /\ resp'.op = "grant_type_credentials"
           /\ resp'.kind = "Ok"
           /\ \A p \in Procs : procs[p].pc = "idle" )
        => resp'.ts.access.kid
             = NewestKid(ClientById(resp'.req.client_id).access_token_alg) ]_vars

\* C31: the validation of a token leaves the refresh store as it is, and
\* while the clock and the keys stand still the verdict on every issued
\* access token is the same before and after a change of the refresh store,
\* the invalidation of all handles of its user included.
C31_ValidationIgnoresRefreshStore ==
  [][ /\ resp'.op = "validate_token" => refresh_tokens' = refresh_tokens
      /\ ( refresh_tokens' # refresh_tokens /\ now' = now /\ jwks' = jwks )
           => \A ts \in issued :
                validate_token(ts.access)' = validate_token(ts.access) ]_vars

\* an access token is accepted while every handle of its user is past its exp
C31_Witness ==
  /\ resp.op = "validate_token"
  /\ resp.kind = "Ok"
  /\ resp.req.uid # None
  /\ \E t \in DOMAIN refresh_tokens : refresh_tokens[t].user_id = resp.req.uid
  /\ \A t \in DOMAIN refresh_tokens :
       refresh_tokens[t].user_id = resp.req.uid => refresh_tokens[t].exp < now

\* the location of an answer to req that names the auth code c
LocationOf(req, c) ==
  req.redirect_uri \o "?code=" \o ToString(c)
    \o (IF req.state = None THEN "" ELSE "&state=" \o req.state)

\* C32: an identifier is handed out only once its record is stored: the
\* Location that authorize returns, and the one it puts into a
\* WebauthnLoginReq, name an auth code that is in the store, and a refresh
\* token returned by the token endpoint has its handle in the store.
C32_SurfacedAfterWrite ==
  [][ /\ ( AuthorizeSucceeds /\ resp'.step = "LoggedIn" )
           => \E c \in DOMAIN auth_codes' : resp'.header_loc = LocationOf(resp'.req, c)
      /\ AuthorizeStep
           => \A row \in webauthn_reqs' \ webauthn_reqs :
                \E c \in DOMAIN auth_codes' : row.header_loc = LocationOf(resp'.req, c)
      /\ ( resp = NoResp /\ resp'.ts.refresh # NoJwt )
           => /\ resp'.ts.refresh.tail \in DOMAIN refresh_tokens'
              /\ refresh_tokens'[resp'.ts.refresh.tail].user_id = resp'.ts.refresh.uid
    ]_vars

\* a token request is answered with a refresh token of a code that a
\* WebauthnLoginReq named, and the handle of the token is stored
C32_Witness ==
  /\ resp.op = "grant_type_code"
  /\ resp.kind = "Ok"
  /\ resp.ts.refresh.tail \in DOMAIN refresh_tokens
  /\ \E row \in webauthn_reqs : row.user_id = resp.ts.uid

\* the handle that the refresh token of the answered request names
RedeemedHandle == refresh_tokens[resp'.req.refresh_token.tail]

\* C33: a refresh that succeeds answers with a token set of the user and the
\* client of the redeemed token, with the is_mfa flag of the handle and with
\* the scope of the handle, or the default scopes of the client when the
\* handle has none; the new handle records the same scope and flag.  A token
\* whose typ is not Refresh or whose azp is not the requesting client is
\* refused with BadRequest once the client and the signature have passed.
C33_RefreshKeepsScopeAndMfa ==
  [][ ( resp = NoResp /\ resp'.op = "grant_type_refresh" )
      => /\ resp'.kind = "Ok"
              => /\ resp'.ts.uid = RedeemedHandle.user_id
                 /\ resp'.ts.uid = resp'.req.refresh_token.uid
                 /\ resp'.ts.client = resp'.req.client_id
                 /\ resp'.ts.client = resp'.req.refresh_token.azp
                 /\ resp'.ts.access.azp = resp'.req.refresh_token.azp
                 /\ resp'.ts.is_mfa = RedeemedHandle.is_mfa
                 /\ resp'.ts.access.scope
                      = (IF RedeemedHandle.scope # None THEN RedeemedHandle.scope
                         ELSE CommaToSpace(ClientById(resp'.req.client_id).default_scopes))
                 /\ refresh_tokens'[resp'.ts.refresh.tail].scope = RedeemedHandle.scope
                 /\ refresh_tokens'[resp'.ts.refresh.tail].is_mfa = RedeemedHandle.is_mfa
                 /\ refresh_tokens'[resp'.ts.refresh.tail].user_id = RedeemedHandle.user_id
         /\ ( /\ validate_client(resp'.req, "refresh_token").kind = "Ok"
              /\ validate_jwt(resp'.req.refresh_token, jwks, now).kind = "Ok"
              /\ \/ resp'.req.refresh_token.typ # "Refresh"
                 \/ resp'.req.refresh_token.azp # resp'.req.client_id )
              => /\ resp'.kind = "BadRequest"
                 /\ resp'.ts = NoTokenSet
                 /\ issued' = issued
                 /\ refresh_tokens' = refresh_tokens ]_vars

\* a handle of the authorization_code flow with the scope openid and the
\* is_mfa flag was redeemed at c1, whose default scopes are openid and email
C33_Witness ==
  /\ resp.op = "grant_type_refresh"
  /\ resp.kind = "Ok"
  /\ resp.ts.is_mfa
  /\ resp.ts.access.scope = "openid"
  /\ refresh_tokens[resp.ts.from].scope = "openid"
  /\ CommaToSpace(ClientById(resp.ts.client).default_scopes) = "openid email"

\* the operations of the token endpoint
TokenOps == {"grant_type_code", "grant_type_credentials", "grant_type_password",
             "grant_type_refresh"}

\* C34: a token request that is answered with an error has put no new handle
\* into the refresh store: the step that answers writes none, and an
\* authorization_code exchange that fails after its tokens were minted
\* leaves none behind.
C34_ErrorLeavesNoHandle ==
  [][ ( resp = NoResp /\ resp'.op \in TokenOps /\ resp'.kind # "Ok" )
      => /\ DOMAIN refresh_tokens' = DOMAIN refresh_tokens
         /\ \A p \in Procs :
              ( procs[p].pc = "minted" /\ procs'[p].pc = "idle" )
                => procs[p].ts.refresh.tail \notin DOMAIN refresh_tokens' ]_vars

\* C35: an authorize that is answered with an error has stored no auth code
\* and no WebauthnLoginReq, and has left the is_mfa flag of every session and
\* the last_login, last_failed_login and failed_login_attempts of every user
\* as they were.
C35_FailedAuthorizeChangesNothing ==
  [][ ( AuthorizeStep /\ resp'.kind # "Ok" )
      => /\ auth_codes' = auth_codes
         /\ webauthn_reqs' = webauthn_reqs
         /\ \A sid \in DOMAIN sessions : sessions'[sid].is_mfa = sessions[sid].is_mfa
         /\ \A u \in UserIds :
              /\ users'[u].last_login = users[u].last_login
              /\ users'[u].last_failed_login = users[u].last_failed_login
              /\ users'[u].failed_login_attempts = users[u].failed_login_attempts ]_vars

\* C36: every stored auth code of a client with PKCE methods has a
\* challenge, so that its redemption asks for a code_verifier.
C36_PkceClientCodesHaveChallenge ==
  \A c \in DOMAIN auth_codes :
    ClientById(auth_codes[c].client_id).challenge # {}
      => auth_codes[c].challenge # None

\* C37: a stored session in state Auth has a user_id; a session becomes Auth
\* only together with the user_id of a user whose expiry validation passes,
\* and an exchange refused for the expiry of the user saves no session.
C37_AuthSessionHasUser ==
  [][ /\ \A sid \in DOMAIN sessions' :
           sessions'[sid].state = "Auth" => sessions'[sid].user_id \in UserIds
      /\ \A sid \in DOMAIN sessions \cap DOMAIN sessions' :
           ( sessions[sid].state # "Auth" /\ sessions'[sid].state = "Auth" )
             => validate_user_expiry(sessions'[sid].user_id, now).kind = "Ok"
      /\ ( resp = NoResp /\ resp'.op = "grant_type_code"
           /\ resp'.msg = "User has expired" )
             => sessions' = sessions ]_vars

\* the session of an exchange that succeeded is Auth and bound to u1
C37_Witness ==
  /\ resp.op = "grant_type_code"
  /\ resp.kind = "Ok"
  /\ \E sid \in DOMAIN sessions :
       /\ sessions[sid].state = "Auth"
       /\ sessions[sid].user_id = resp.ts.uid
       /\ resp.ts.uid = "u1"

\* C38: no operation raises the exp of a stored refresh handle or moves its
\* nbf, and a handle is created with nbf = mint time + access_token_lifetime
\* - 60 s and exp = nbf + 48 h.
C38_HandleExpNeverGrows ==
  [][ /\ \A t \in DOMAIN refresh_tokens :
           /\ t \in DOMAIN refresh_tokens'
           /\ refresh_tokens'[t].exp <= refresh_tokens[t].exp
           /\ refresh_tokens'[t].nbf = refresh_tokens[t].nbf
      /\ \A t \in DOMAIN refresh_tokens' \ DOMAIN refresh_tokens :
           /\ refresh_tokens'[t].nbf
                = now + ClientById(resp'.ts.client).access_token_lifetime - 60
           /\ refresh_tokens'[t].exp = refresh_tokens'[t].nbf + 172800 ]_vars

\* after a misuse, one handle of the user carries the exp of its redemption
\* and another the exp of the invalidation
C38_Witness ==
  /\ resp.op = "grant_type_refresh"
  /\ resp.msg = RefreshMisuse.msg
  /\ \E t1, t2 \in DOMAIN refresh_tokens :
       /\ refresh_tokens[t1].exp = now - 1
       /\ refresh_tokens[t2].exp < now - 1
       /\ refresh_tokens[t2].exp > refresh_tokens[t2].nbf

\* the average after the update with a is followed by the update with b
SerialAverage(s, a, b) == new_time(new_time(s, a), b)

\* C39: once two hashed successful logins have both stored their time, the
\* average in the cache is the result of the two updates applied one after
\* the other, in one of the two orders, to the average the earlier call read.
C39_NoLostUpdate ==
  ( /\ \A p \in Procs :
         /\ procs[p].pc = "answered"
         /\ procs[p].res.kind = "Ok"
         /\ procs[p].res.has_password_been_hashed )
    => \/ login_time = SerialAverage(procs[1].success_time, procs[1].delta,
                                     procs[2].delta)
       \/ login_time = SerialAverage(procs[2].success_time, procs[2].delta,
                                     procs[1].delta)

\* C40: a stored auth code, and a code that a redemption has read, has a
\* challenge_method exactly when it has a challenge, and the method is plain
\* or S256.
C40_MethodIffChallenge ==
  \A code \in { auth_codes[k] : k \in DOMAIN auth_codes }
                \cup { procs[p].code : p \in Procs } :
    /\ (code.challenge_method # None) <=> (code.challenge # None)
    /\ code.challenge_method \in {None, "plain", "S256"}

\* a request with a method and no challenge has stored a code without both
C40_Witness ==
  /\ resp.op = "authorize"
  /\ resp.kind = "Ok"
  /\ resp.req.code_challenge_method = "S256"
  /\ resp.req.code_challenge = None
  /\ \E k \in DOMAIN auth_codes :
       /\ auth_codes[k].client_id = "c2"
       /\ auth_codes[k].challenge = None
       /\ auth_codes[k].challenge_method = None

=============================================================================
